---- MODULE Spec2Model ----
(***************************************************************************)
(* Model of the AI Testing Companion backend services:                     *)
(*   - BitbucketService.analyzePR          (change classifier)             *)
(*   - TestRailService.getImpactedTestCases (impact selector)              *)
(*   - TestRailService.scoreRegressionTestsForRelevance (relevance scorer) *)
(*   - TestRailService.getRegressionTestCases, extractFileKeywords         *)
(*   - JiraService.getStoryDetails / getLinkedPRs on the shared instance   *)
(*   - POST /api/upload-to-testrail (section, duplicate check, bulk add)   *)
(* JavaScript strings are TLA+ strings; the string methods the services    *)
(* call (includes, endsWith, toLowerCase, split, trim) are operators that  *)
(* work character by character.                                            *)
(***************************************************************************)
EXTENDS Integers, Sequences, FiniteSets, TLC

VARIABLES
    analysis,   \* per request slot: the last analyzePR call (arguments and returned analysis)
    impact,     \* the last getImpactedTestCases call (arguments, locals at return, outcome)
    scored,     \* the last scoreRegressionTestsForRelevance call (arguments and outcome)
    regression, \* the last getRegressionTestCases call (server, arguments and outcome)
    jira,       \* the shared JiraService instance and the requests running on it
    upload,     \* the TestRail section being uploaded to and the upload requests
    resolution, \* the last resolution of a ticket component against a traceability table
    extracted,  \* the last run of the two keyword extractors (arguments and results)
    reply,      \* the last POST /api/analyze-pr request (inputs and the response sent)
    dashboard,  \* the dashboard page: displayed test cases, their checkboxes, state
    inventory   \* a paginated fetch of the sections and cases of a suite, page by page

vars == <<analysis, impact, scored, regression, jira, upload, resolution, extracted, reply, dashboard, inventory>>

None == [t |-> "none"]

-----------------------------------------------------------------------------
(* JavaScript string primitives                                            *)

UpperChars == "ABCDEFGHIJKLMNOPQRSTUVWXYZ"
LowerChars == "abcdefghijklmnopqrstuvwxyz"

Ch(s, i) == SubSeq(s, i, i)

\* the set of characters of a string (a regular-expression character class)
CharsOf(chars) == {Ch(chars, i) : i \in 1..Len(chars)}

UpperSet == CharsOf(UpperChars)
LowerAlnumSet == CharsOf(LowerChars \o "0123456789")

LowerOf == [c \in UpperSet |-> Ch(LowerChars, CHOOSE i \in 1..26 : Ch(UpperChars, i) = c)]

LowerCh(c) == IF c \in UpperSet THEN LowerOf[c] ELSE c

RECURSIVE ToLowerCase(_)
ToLowerCase(s) ==
    IF Len(s) = 0 THEN ""
    ELSE IF Len(s) = 1 THEN LowerCh(s)
    ELSE LET h == Len(s) \div 2
         IN  ToLowerCase(SubSeq(s, 1, h)) \o ToLowerCase(SubSeq(s, h + 1, Len(s)))

\* s.includes(t)
Includes(s, t) ==
    \/ Len(t) = 0
    \/ \E i \in 1..(Len(s) - Len(t) + 1) : SubSeq(s, i, i + Len(t) - 1) = t

\* s.endsWith(t)
EndsWith(s, t) ==
    /\ Len(t) <= Len(s)
    /\ SubSeq(s, Len(s) - Len(t) + 1, Len(s)) = t

\* arr.filter(pred), given the set of indices that satisfy pred
RECURSIVE PickIdx(_, _)
PickIdx(list, S) ==
    IF Len(list) = 0 THEN <<>>
    ELSE IF Len(list) \in S
         THEN Append(PickIdx(SubSeq(list, 1, Len(list) - 1), S), list[Len(list)])
         ELSE PickIdx(SubSeq(list, 1, Len(list) - 1), S)

\* [...new Set(list)]: first occurrences, in order
Unique(list) ==
    PickIdx(list, {i \in 1..Len(list) : \A j \in 1..(i - 1) : list[j] # list[i]})

\* the indices 1..n as a list
Indices(n) == [i \in 1..n |-> i]

MinOf(S) == CHOOSE i \in S : \A j \in S : i <= j

\* arr.flatMap over a list of lists
RECURSIVE Flatten(_)
Flatten(lists) ==
    IF Len(lists) = 0 THEN <<>>
    ELSE lists[1] \o Flatten(SubSeq(lists, 2, Len(lists)))

\* the places where split cuts, left to right: of the places where the
\* separator (w characters wide) matches, each one that does not overlap
\* the cut before it
RECURSIVE CutsOf(_, _)
CutsOf(hits, w) ==
    IF hits = {} THEN <<>>
    ELSE <<MinOf(hits)>>
         \o CutsOf({h \in hits : h > MinOf(hits) /\ h >= MinOf(hits) + w}, w)

\* the pieces of s between the cuts
Pieces(s, cuts, w) ==
    [i \in 1..(Len(cuts) + 1) |->
        SubSeq(s, IF i = 1 THEN 1 ELSE cuts[i - 1] + w,
                  IF i > Len(cuts) THEN Len(s) ELSE cuts[i] - 1)]

\* s.split(/[seps]/): one-character separators, empty pieces kept
SplitOn(s, seps) == Pieces(s, CutsOf({i \in 1..Len(s) : Ch(s, i) \in seps}, 1), 1)

\* s.split(sep) for a separator string
SplitStr(s, sep) ==
    Pieces(s, CutsOf({k \in 1..(Len(s) - Len(sep) + 1) :
                         SubSeq(s, k, k + Len(sep) - 1) = sep}, Len(sep)), Len(sep))

\* part.split(/(?=[A-Z])/): a new piece starts before every capital letter
SplitCamel(s) == Pieces(s, CutsOf({i \in 2..Len(s) : Ch(s, i) \in UpperSet}, 0), 0)

\* the entries of a list of strings longer than n
LongerThan(list, n) == PickIdx(list, {i \in 1..Len(list) : Len(list[i]) > n})

\* the entries of a list (indices) that occur in the text
namesInText(text, names) == {n \in 1..Len(names) : Includes(text, names[n])}

\* whether some entry of the list occurs in the text
SomeIn(text, names) == \E i \in 1..Len(names) : Includes(text, names[i])

\* whitespace recognised by \s and trim(); the inputs use blank and tab
WhiteSet == CharsOf(" \t")
\* the character classes of the services' split expressions
LabelSeps == WhiteSet \cup CharsOf("-_")
TextSeps == WhiteSet \cup CharsOf(",.-")

RECURSIVE TrimStart(_)
TrimStart(s) ==
    IF Len(s) > 0 /\ Ch(s, 1) \in WhiteSet
    THEN TrimStart(SubSeq(s, 2, Len(s))) ELSE s

RECURSIVE TrimEnd(_)
TrimEnd(s) ==
    IF Len(s) > 0 /\ Ch(s, Len(s)) \in WhiteSet
    THEN TrimEnd(SubSeq(s, 1, Len(s) - 1)) ELSE s

Trim(s) == TrimEnd(TrimStart(s))

\* list.map(x => x.trim()), list.map(x => x.toLowerCase()), list.filter(Boolean)
TrimAll(list) == [i \in 1..Len(list) |-> Trim(list[i])]
LowerAll(list) == [i \in 1..Len(list) |-> ToLowerCase(list[i])]
NonEmpty(list) == PickIdx(list, {i \in 1..Len(list) : list[i] # ""})

\* a || b on numbers: 0 and undefined (modelled as 0) fall through
OrNum(a, b) == IF a # 0 THEN a ELSE b

-----------------------------------------------------------------------------
(* JavaScript values of the raw changed-file entries                       *)

Str(s) == [t |-> "string", v |-> s]
Undef == [t |-> "undefined"]
\* an object is its own enumerable properties in insertion order
Obj(props) == [t |-> "object", props |-> props]
Prop(k, v) == [key |-> k, val |-> v]

IsStr(x) == x.t = "string"
IsObj(x) == x.t = "object"

HasProp(o, k) == IsObj(o) /\ \E i \in 1..Len(o.props) : o.props[i].key = k

\* o.k  (undefined when o is not an object or has no such own property)
Get(o, k) ==
    IF HasProp(o, k)
    THEN o.props[CHOOSE i \in 1..Len(o.props) : o.props[i].key = k].val
    ELSE Undef

\* truthiness of a value used in `x && ...`
Truthy(x) ==
    CASE x.t = "string" -> Len(x.v) > 0
      [] x.t = "object" -> TRUE
      [] OTHER -> FALSE

UNKNOWN == "[unknown]"

-----------------------------------------------------------------------------
(* BitbucketService.analyzePR                                              *)

\* analyzePR's local getPath helper
analyzeGetPath(f) ==
    LET p == f.path IN
    IF IsStr(p) THEN p.v
    ELSE LET strKeys == IF IsObj(p)
                        THEN {i \in 1..Len(p.props) : IsStr(p.props[i].val)}
                        ELSE {}
         IN
         IF IsObj(p) /\ IsStr(Get(p, "value")) THEN Get(p, "value").v
         ELSE IF IsObj(p) /\ IsStr(Get(p, "text")) THEN Get(p, "text").v
         ELSE IF strKeys # {}
              THEN p.props[CHOOSE i \in strKeys : \A j \in strKeys : i <= j].val.v
         ELSE IF Truthy(f.new) /\ Truthy(Get(f.new, "path")) THEN Get(f.new, "path").v
         ELSE IF Truthy(f.old) /\ Truthy(Get(f.old, "path")) THEN Get(f.old, "path").v
         ELSE UNKNOWN

RECURSIVE totalLinesOf(_)
totalLinesOf(files) ==
    IF Len(files) = 0 THEN 0
    ELSE OrNum(files[1].linesAdded, files[1].lines_added)
         + OrNum(files[1].linesRemoved, files[1].lines_removed)
         + totalLinesOf(SubSeq(files, 2, Len(files)))

isSharedPath(path) ==
    \/ Includes(path, "shared")
    \/ Includes(path, "core")
    \/ Includes(path, "common")
    \/ Includes(path, "utils")

isStylePath(path) ==
    \/ EndsWith(path, ".css")
    \/ EndsWith(path, ".scss")
    \/ EndsWith(path, ".less")
    \/ Includes(path, "style")

sharedComponentsOf(files) ==
    Cardinality({i \in 1..Len(files) : isSharedPath(analyzeGetPath(files[i]))})

onlyStyleChangesOf(files) ==
    \A i \in 1..Len(files) : isStylePath(analyzeGetPath(files[i]))

titleSaysMinor(prTitle) ==
    LET title == ToLowerCase(prTitle) IN
    \/ Includes(title, "minor")
    \/ Includes(title, "quick")
    \/ Includes(title, "small")
    \/ Includes(title, "fix")

\* The risk score is kept in twentieths so that lines * 0.05 stays exact:
\* riskScore20 = 20 * Math.min(100, files*1 + shared*10 + lines*0.05)
riskScore20(totalFiles, sharedComponents, totalLines) ==
    LET raw == totalFiles * 20 + sharedComponents * 200 + totalLines
    IN  IF raw < 2000 THEN raw ELSE 2000

\* Math.round of a value given in twentieths (halves round up)
MathRound20(x20) == (x20 + 10) \div 20

\* variant: the size test is made before the shared-component/risk test
categoryOf_sizeFirst(onlyStyleChanges, isSarcastic, sharedComponents, risk20, totalFiles, totalLines) ==
    IF onlyStyleChanges THEN "Sleepy PR"
    ELSE IF isSarcastic THEN "Sarcastic PR"
    ELSE IF totalFiles > 10 \/ totalLines > 500 THEN "Angry PR"
    ELSE IF sharedComponents > 3 \/ risk20 > 85 * 20 THEN "Overloaded PR"
    ELSE "Relaxed PR"

categoryOf(onlyStyleChanges, isSarcastic, sharedComponents, risk20, totalFiles, totalLines) ==
    IF onlyStyleChanges THEN "Sleepy PR"
    ELSE IF isSarcastic THEN "Sarcastic PR"
    ELSE IF sharedComponents > 3 \/ risk20 > 85 * 20 THEN "Overloaded PR"
    ELSE IF totalFiles > 10 \/ totalLines > 500 THEN "Angry PR"
    ELSE "Relaxed PR"

riskLevelOf(risk20) ==
    IF risk20 < 30 * 20 THEN "Low"
    ELSE IF risk20 < 70 * 20 THEN "Medium"
    ELSE "High"

\* variant: the category treats a change as style-only when some file is a style file
analyzePR_someStyle(pr, files) ==
    LET totalFiles == Len(files)
        totalLines == totalLinesOf(files)
        sharedComponents == sharedComponentsOf(files)
        someStyle == \E i \in 1..Len(files) : isStylePath(analyzeGetPath(files[i]))
        isSarcastic == titleSaysMinor(pr.title) /\ (totalFiles > 5 \/ totalLines > 100)
        risk20 == riskScore20(totalFiles, sharedComponents, totalLines)
    IN  [ category  |-> categoryOf(someStyle, isSarcastic, sharedComponents,
                                   risk20, totalFiles, totalLines),
          riskScore |-> MathRound20(risk20),
          riskLevel |-> riskLevelOf(risk20),
          metrics   |-> [ filesChanged     |-> totalFiles,
                          linesChanged     |-> totalLines,
                          sharedComponents |-> sharedComponents,
                          onlyStyleChanges |-> onlyStyleChangesOf(files) ] ]

analyzePR(pr, files) ==
    LET totalFiles == Len(files)
        totalLines == totalLinesOf(files)
        sharedComponents == sharedComponentsOf(files)
        onlyStyleChanges == onlyStyleChangesOf(files)
        isSarcastic == titleSaysMinor(pr.title) /\ (totalFiles > 5 \/ totalLines > 100)
        risk20 == riskScore20(totalFiles, sharedComponents, totalLines)
    IN  [ category  |-> categoryOf(onlyStyleChanges, isSarcastic, sharedComponents,
                                   risk20, totalFiles, totalLines),
          riskScore |-> MathRound20(risk20),
          riskLevel |-> riskLevelOf(risk20),
          metrics   |-> [ filesChanged     |-> totalFiles,
                          linesChanged     |-> totalLines,
                          sharedComponents |-> sharedComponents,
                          onlyStyleChanges |-> onlyStyleChanges ] ]

-----------------------------------------------------------------------------
(* TestRailService: keyword extraction                                     *)

\* s.split(/[seps]+/): a run of separators splits once; only a leading or a
\* trailing separator run leaves an empty piece
DropInnerEmpty(raw) ==
    PickIdx(raw, {i \in 1..Len(raw) : raw[i] # "" \/ i = 1 \/ i = Len(raw)})
SplitRuns(s, seps) == DropInnerEmpty(SplitOn(s, seps))

stopWords ==
    { "the", "and", "for", "are", "but", "not", "you", "all", "can", "has", "was", "were",
      "been", "have", "this", "that", "with", "from", "they", "will", "would", "there",
      "their", "what", "which", "when", "where", "should", "could", "make", "made",
      "able", "about", "into", "than", "them", "these", "those", "does", "done" }

significantWords(pieces) ==
    PickIdx(pieces, {i \in 1..Len(pieces) :
                        /\ Len(pieces[i]) >= 4
                        /\ \A c \in 1..Len(pieces[i]) : Ch(pieces[i], c) \in LowerAlnumSet
                        /\ pieces[i] \notin stopWords})

extractSignificantKeywords(text) ==
    IF text = "" THEN <<>>
    ELSE Unique(significantWords(SplitRuns(ToLowerCase(text), TextSeps)))

-----------------------------------------------------------------------------
(* TestRailService.getImpactedTestCases                                    *)
(* A value that the method keeps in a local and reads more than once is    *)
(* passed on as an operator argument.                                      *)

\* stands for the breadcrumb separator U+203A in section paths
Crumb == "~"

PageLimit == 250

categoryLimit(prCategory) ==
    CASE prCategory = "Relaxed PR" -> 20
      [] prCategory = "Sleepy PR" -> 30
      [] prCategory = "Sarcastic PR" -> 40
      [] prCategory = "Overloaded PR" -> 60
      [] prCategory = "Angry PR" -> 80
      [] OTHER -> 50

\* the paginated fetch loop against a server that serves items[offset+1 .. offset+limit]
RECURSIVE fetchAllPages(_, _, _)
takePage(items, offset, acc, page) ==
    IF Len(page) = 0 THEN acc
    ELSE IF Len(page) < PageLimit THEN acc \o page
    ELSE fetchAllPages(items, offset + PageLimit, acc \o page)
fetchAllPages(items, offset, acc) ==
    takePage(items, offset, acc,
             SubSeq(items, offset + 1,
                    IF offset + PageLimit < Len(items) THEN offset + PageLimit ELSE Len(items)))

\* sectionMap = new Map(allSections.map(s => [s.id, s])): the last entry of an id wins
sectionMapHas(allSections, id) == \E i \in 1..Len(allSections) : allSections[i].id = id

sectionMapIdx(allSections, id) ==
    CHOOSE i \in 1..Len(allSections) :
        /\ allSections[i].id = id
        /\ \A j \in (i + 1)..Len(allSections) : allSections[j].id # id

\* the while (current) walk over parent links, from the section at index i;
\* visited holds the map entries already walked: meeting one again never ends
RECURSIVE walkParents(_, _, _)
unshiftName(above, name) ==
    [parts |-> Append(above.parts, name), loops |-> above.loops]
walkUp(allSections, i, visited, up) ==
    IF up \in visited
    THEN [parts |-> <<>>, loops |-> TRUE]
    ELSE unshiftName(walkParents(allSections, up, visited \cup {up}), allSections[i].name)
walkParents(allSections, i, visited) ==
    IF allSections[i].parent_id # 0 /\ sectionMapHas(allSections, allSections[i].parent_id)
    THEN walkUp(allSections, i, visited, sectionMapIdx(allSections, allSections[i].parent_id))
    ELSE [parts |-> <<allSections[i].name>>, loops |-> FALSE]

\* parts.join(sep)
RECURSIVE Join(_, _)
Join(parts, sep) ==
    IF Len(parts) = 0 THEN ""
    ELSE IF Len(parts) = 1 THEN parts[1]
    ELSE parts[1] \o sep \o Join(SubSeq(parts, 2, Len(parts)), sep)

sectionPathSep == " " \o Crumb \o " "

\* section.path for every fetched section
withPaths(allSections) ==
    [i \in 1..Len(allSections) |->
        [ id |-> allSections[i].id, name |-> allSections[i].name,
          parent_id |-> allSections[i].parent_id,
          path |-> Join(walkParents(allSections, i, {}).parts, sectionPathSep) ]]

pathsLoop(allSections) ==
    \E i \in 1..Len(allSections) : walkParents(allSections, i, {}).loops

\* allCases.map(tc => ({...tc, sectionPath, url, sectionUrl})); the urls are
\* formatted from the ids and are not carried
enrichCases(cases, sections) ==
    [i \in 1..Len(cases) |->
        [ id |-> cases[i].id, title |-> cases[i].title, refs |-> cases[i].refs,
          section_id |-> cases[i].section_id,
          sectionPath |-> IF sectionMapHas(sections, cases[i].section_id)
                          THEN sections[sectionMapIdx(sections, cases[i].section_id)].path
                          ELSE "" ]]

USER_ROLES == {"admin", "investigator", "reviewer", "applicant"}

\* str.split(/[-_\s]/).map(p => p.trim().toLowerCase())
splitLabel(str) == LowerAll(TrimAll(SplitOn(str, LabelSeps)))

\* variant: the role words are kept
withoutRoles_kept(parts) == parts

\* compParts.filter(p => !USER_ROLES.includes(p))
withoutRoles(parts) == PickIdx(parts, {i \in 1..Len(parts) : parts[i] \notin USER_ROLES})

\* expandedParts: the camel-case words of every part, lower-cased
expandedParts(parts) ==
    Flatten([i \in 1..Len(parts) |-> LowerAll(SplitCamel(parts[i]))])

unionOfParts(parts) == NonEmpty(Unique(parts \o expandedParts(parts)))

\* compParts of one ticket component (lines 1286-1297)
componentParts(jiraComp) == unionOfParts(withoutRoles(NonEmpty(splitLabel(jiraComp))))

wordsMatch(compParts, trCompWords) ==
    \E p \in 1..Len(compParts), w \in 1..Len(trCompWords) :
        \/ Includes(trCompWords[w], compParts[p])
        \/ Includes(compParts[p], trCompWords[w])

\* hasMatch for one traceability entry (lines 1305-1312)
entryMatches(compParts, trCompName) ==
    wordsMatch(compParts, SplitRuns(ToLowerCase(trCompName), LabelSeps))

fallbackTags(compParts) == [matched |-> FALSE, name |-> "", tags |-> compParts]

\* if (!matchedTRComponent): an entry named "" counts as no match
tagsOfEntry(compParts, entry) ==
    IF entry.name # ""
    THEN [matched |-> TRUE, name |-> entry.name, tags |-> entry.tags]
    ELSE fallbackTags(compParts)

\* variant: the last matching entry is taken
firstHit_last(compParts, componentMapping, hits) ==
    IF hits # {} THEN tagsOfEntry(compParts, componentMapping[CHOOSE i \in hits : \A j \in hits : i >= j])
    ELSE fallbackTags(compParts)

firstHit(compParts, componentMapping, hits) ==
    IF hits # {} THEN tagsOfEntry(compParts, componentMapping[MinOf(hits)])
    ELSE fallbackTags(compParts)

\* matchedTRComponent and tags (lines 1302-1327); componentMapping is the
\* list of Object.entries in iteration order
resolveTags(compParts, componentMapping) ==
    firstHit(compParts, componentMapping,
             {i \in 1..Len(componentMapping) :
                 entryMatches(compParts, componentMapping[i].name)})

\* uniqueSearchTerms (lines 1330-1335)
searchTermsOf(tags) ==
    Unique(Flatten([i \in 1..Len(tags) |-> LongerThan(splitLabel(tags[i]), 2)]))

\* sectionPath.split(/\s*[>U+203A]\s*/).map(f => f.trim()).filter(Boolean)
foldersOf(sectionPath) == NonEmpty(TrimAll(SplitOn(sectionPath, {">", Crumb})))

\* the search terms that some folder of the path contains
folderHits(foldersLower, uniqueSearchTerms) ==
    {t \in 1..Len(uniqueSearchTerms) :
        \E f \in 1..Len(foldersLower) : Includes(foldersLower[f], uniqueSearchTerms[t])}

\* the step1Matches entries of one component: the cases at the indices
\* picked, each with the first search term found (lines 1349-1360)
matchesAt(allCases, jiraComp, uniqueSearchTerms, hits, picked) ==
    [k \in 1..Len(picked) |->
        [ testCase |-> allCases[picked[k]], jiraComponent |-> jiraComp,
          matchedTerm |-> uniqueSearchTerms[MinOf(hits[picked[k]])],
          matchedKeywords |-> <<>>, matchedFileKeywords |-> <<>> ]]

scanHits(allCases, jiraComp, uniqueSearchTerms, hits) ==
    matchesAt(allCases, jiraComp, uniqueSearchTerms, hits,
              PickIdx(Indices(Len(allCases)), {i \in 1..Len(allCases) : hits[i] # {}}))

\* allCases.forEach of one component (lines 1340-1363)
componentScan(allCases, jiraComp, uniqueSearchTerms) ==
    scanHits(allCases, jiraComp, uniqueSearchTerms,
             [i \in 1..Len(allCases) |->
                 folderHits(LowerAll(foldersOf(allCases[i].sectionPath)), uniqueSearchTerms)])

\* variant: no entry is dropped
firstOfEachId_keepAll(list, ids, seen) == list

\* keep the first entry of every id not seen before (seenCaseIds /
\* seenTestCaseIds); ids[i] is the test-case id of list[i]
firstOfEachId(list, ids, seen) ==
    PickIdx(list, {i \in 1..Len(list) :
                      /\ ids[i] \notin seen
                      /\ \A j \in 1..(i - 1) : ids[j] # ids[i]})

setField(match, field, found) ==
    IF field = "matchedKeywords"
    THEN [match EXCEPT !.matchedKeywords = found]
    ELSE [match EXCEPT !.matchedFileKeywords = found]

keepFound(matches, kws, field, found, kept) ==
    [k \in 1..Len(kept) |-> setField(matches[kept[k]], field, PickIdx(kws, found[kept[k]]))]

filterFound(matches, kws, field, found) ==
    keepFound(matches, kws, field, found,
              PickIdx(Indices(Len(matches)), {i \in 1..Len(matches) : found[i] # {}}))

\* foundKeywords of every match (indices): the keywords that its
\* lower-cased section path or title contains
foundKeywords(matches, kwsLower) ==
    [i \in 1..Len(matches) |->
        namesInText(ToLowerCase(matches[i].testCase.sectionPath), kwsLower)
        \cup namesInText(ToLowerCase(matches[i].testCase.title), kwsLower)]

\* variant: without keywords no match passes
keywordFilter_emptyRejects(matches, kws, field) ==
    filterFound(matches, kws, field, foundKeywords(matches, LowerAll(kws)))

\* STEP 3 / STEP 4: keep the matches whose section path or title contains a
\* keyword; without keywords all matches pass (lines 1382-1441)
keywordFilter(matches, kws, field) ==
    IF Len(kws) > 0
    THEN filterFound(matches, kws, field, foundKeywords(matches, LowerAll(kws)))
    ELSE matches

\* filePath.path.split(/[/\\]/).pop()
LastOf(list) == list[Len(list)]
fileNameOf(path) == LastOf(SplitOn(path, {"/", "\\"}))

filenameKeywordsOf(changedFiles) ==
    Unique(Flatten([i \in 1..Len(changedFiles) |->
                        extractSignificantKeywords(fileNameOf(changedFiles[i].path))]))

directEntry(tc) ==
    [ id |-> tc.id, title |-> tc.title, refs |-> tc.refs, section_id |-> tc.section_id,
      sectionPath |-> tc.sectionPath, matchType |-> "jira_reference", priority |-> 1 ]

enrichedTC(match) ==
    [ id |-> match.testCase.id, title |-> match.testCase.title,
      refs |-> match.testCase.refs, section_id |-> match.testCase.section_id,
      sectionPath |-> match.testCase.sectionPath, matchType |-> "component_with_keywords",
      matchedComponent |-> match.jiraComponent,
      matchedKeywords |-> match.matchedKeywords,
      matchedFileKeywords |-> match.matchedFileKeywords, priority |-> 3 ]

groupKey(tc) == IF tc.sectionPath # "" THEN tc.sectionPath ELSE "Unknown Section"

IdsOf(list) == [i \in 1..Len(list) |-> list[i].id]

\* variant: the reference field is compared without lower-casing
refsMention_caseSensitive(tc, jiraId) == Includes(tc.refs, jiraId)

\* variant: the containment is tested the wrong way round
refsMention_reversed(tc, jiraId) == Includes(ToLowerCase(jiraId), ToLowerCase(tc.refs))

\* the filter of the direct reference stage (lines 1252-1255)
refsMention(tc, jiraId) == Includes(ToLowerCase(tc.refs), ToLowerCase(jiraId))

\* jiraMatches (lines 1252-1255)
jiraMatchesOf(allCases, jiraId) ==
    PickIdx(allCases, {i \in 1..Len(allCases) : refsMention(allCases[i], jiraId)})

\* PRIORITY 1 (lines 1249-1269): the cases pushed to directJiraMatch
directStage(allCases, jiraId) ==
    IF jiraId # ""
    THEN firstOfEachId(jiraMatchesOf(allCases, jiraId),
                       IdsOf(jiraMatchesOf(allCases, jiraId)), {})
    ELSE <<>>

\* tags of every ticket component, in order
resolveAll(jiraComponents, componentMapping) ==
    [c \in 1..Len(jiraComponents) |->
        resolveTags(componentParts(jiraComponents[c]), componentMapping).tags]

\* step1Matches over all components (lines 1282-1366)
step1MatchesOf(allCases, jiraComponents, tags) ==
    Flatten([c \in 1..Len(jiraComponents) |->
                componentScan(allCases, jiraComponents[c], searchTermsOf(tags[c]))])

\* componentMatches: step1Matches without repeated ids (lines 1368-1375)
dedupeMatches(step1Matches) ==
    firstOfEachId(step1Matches,
                  [i \in 1..Len(step1Matches) |-> step1Matches[i].testCase.id], {})

\* groupedBySection (lines 1447-1468)
groupBySection(enriched) ==
    [k \in {groupKey(enriched[i]) : i \in 1..Len(enriched)} |->
        PickIdx(enriched, {i \in 1..Len(enriched) : groupKey(enriched[i]) = k})]

\* variant: the direct matches are appended after the component cases
composeResults_componentFirst(directJiraMatch, enriched, unseen) ==
    [ directJiraMatch       |-> directJiraMatch,
      componentMatch        |-> <<>>,
      componentWithKeywords |-> unseen,
      allCases              |-> unseen \o directJiraMatch,
      groupedByModule       |-> groupBySection(enriched) ]

\* the results object at return (lines 1160-1166, 1470-1490)
composeResults(directJiraMatch, enriched, unseen) ==
    [ directJiraMatch       |-> directJiraMatch,
      componentMatch        |-> <<>>,
      componentWithKeywords |-> unseen,
      allCases              |-> directJiraMatch \o unseen,
      groupedByModule       |-> groupBySection(enriched) ]

finish(options, allCases, tags, componentMatches, step2Matches, step3Matches, directJiraMatch, enriched) ==
    [ outcome |-> "return",
      results |-> composeResults(directJiraMatch, enriched,
                     firstOfEachId(enriched, IdsOf(enriched),
                                   {directJiraMatch[i].id : i \in 1..Len(directJiraMatch)})),
      maxTestCases |-> categoryLimit(options.prCategory),
      jiraTitleKeywords |-> extractSignificantKeywords(options.jiraTitle),
      allCases |-> allCases,
      tags |-> tags,
      componentMatches |-> componentMatches,
      step2Matches |-> step2Matches,
      step3Matches |-> step3Matches ]

afterStep4(options, allCases, tags, componentMatches, step2Matches, step3Matches, directKept) ==
    finish(options, allCases, tags, componentMatches, step2Matches, step3Matches,
           [i \in 1..Len(directKept) |-> directEntry(directKept[i])],
           [i \in 1..Len(step3Matches) |-> enrichedTC(step3Matches[i])])

afterStep3(options, allCases, tags, componentMatches, step2Matches, directKept) ==
    afterStep4(options, allCases, tags, componentMatches, step2Matches,
               keywordFilter(step2Matches, filenameKeywordsOf(options.changedFiles),
                             "matchedFileKeywords"),
               directKept)

afterStep1(options, allCases, tags, componentMatches, directKept) ==
    afterStep3(options, allCases, tags, componentMatches,
               keywordFilter(componentMatches, extractSignificantKeywords(options.jiraTitle),
                             "matchedKeywords"),
               directKept)

withTags(options, allCases, tags, directKept) ==
    afterStep1(options, allCases, tags,
               dedupeMatches(step1MatchesOf(allCases, options.jiraComponents, tags)),
               directKept)

\* the stages over the enriched inventory (lines 1243-1502)
stages(options, allCases) ==
    IF Len(options.jiraComponents) > 0
    THEN withTags(options, allCases,
                  resolveAll(options.jiraComponents, options.traceabilityMatrix),
                  directStage(allCases, options.jiraId))
    ELSE afterStep4(options, allCases, <<>>, <<>>, <<>>, <<>>,
                    directStage(allCases, options.jiraId))

withSections(server, options, fetchedSections) ==
    IF pathsLoop(fetchedSections) THEN [outcome |-> "hang"]
    ELSE stages(options, enrichCases(fetchAllPages(server.cases, 0, <<>>),
                                     withPaths(fetchedSections)))

\* The whole call.  server is what the test repository holds (sections and
\* cases of the suite, and whether its API answers); options are the
\* caller's arguments.  The record returned carries the outcome and the
\* method's locals at that point.
getImpactedTestCases(server, options) ==
    IF ~server.up THEN [outcome |-> "throw"]
    ELSE withSections(server, options, fetchAllPages(server.sections, 0, <<>>))

-----------------------------------------------------------------------------
(* TestRailService.scoreRegressionTestsForRelevance and its helpers        *)
(* A test case is a record [id, title, refs, custom_fields, sectionPath,   *)
(* section_id, priority_id]; "" and 0 stand for a field that is absent or  *)
(* empty (both are falsy).                                                 *)

MaxOf(S) == CHOOSE i \in S : \A j \in S : i >= j
MinNum(a, b) == IF a < b THEN a ELSE b
MaxNum(a, b) == IF a > b THEN a ELSE b

\* JSON.stringify of an object given as a list of [key, value] string pairs
JSONStringify(fields) ==
    "{" \o Join([i \in 1..Len(fields) |->
                    "\"" \o fields[i].key \o "\":\"" \o fields[i].value \o "\""], ",") \o "}"

\* name.replace(/\.[^/.]+$/, ''): drop the last extension
dropAfter(name, dots) ==
    IF dots # {} /\ MaxOf(dots) < Len(name) THEN SubSeq(name, 1, MaxOf(dots) - 1) ELSE name
dropExtension(name) == dropAfter(name, {i \in 1..Len(name) : Ch(name, i) = "."})

\* file.path.split('/').pop().replace(/\.[^/.]+$/, '').toLowerCase()
fileStemOf(path) == ToLowerCase(dropExtension(LastOf(SplitOn(path, {"/"}))))

\* tagToComponent: every lower-cased tag with the last component that lists
\* it, in the order the tags are first met
allTagsOf(componentMap) ==
    Flatten([i \in 1..Len(componentMap) |->
                [j \in 1..Len(componentMap[i].tags) |->
                    [tag |-> ToLowerCase(componentMap[i].tags[j]),
                     componentName |-> componentMap[i].name]]])
uniqueTags(pairs) ==
    PickIdx([i \in 1..Len(pairs) |->
                [tag |-> pairs[i].tag,
                 componentName |->
                     pairs[MaxOf({j \in 1..Len(pairs) : pairs[j].tag = pairs[i].tag})].componentName]],
            {i \in 1..Len(pairs) : \A j \in 1..(i - 1) : pairs[j].tag # pairs[i].tag})
tagToComponent(componentMap) == uniqueTags(allTagsOf(componentMap))

componentNamesOf(tagMap) == [k \in 1..Len(tagMap) |-> tagMap[k].componentName]
areasOver(pathsLower, tagMap) ==
    Unique(Flatten([f \in 1..Len(pathsLower) |->
                       componentNamesOf(PickIdx(tagMap, {k \in 1..Len(tagMap) :
                                                   Includes(pathsLower[f], tagMap[k].tag)}))]))

\* mapFilesToFunctionalAreas(files), with the configured component table
mapFilesToFunctionalAreas(files, componentMap) ==
    areasOver([f \in 1..Len(files) |-> ToLowerCase(files[f].path)], tagToComponent(componentMap))

\* \w of a regular expression, and \b before position k of s
IsWordAt(s, i) ==
    i >= 1 /\ i <= Len(s) /\ Ch(s, i) \in (LowerAlnumSet \cup UpperSet \cup {"_"})
BoundaryBefore(s, k) == IsWordAt(s, k - 1) # IsWordAt(s, k)
MatchAt(s, k, lit) == k + Len(lit) - 1 <= Len(s) /\ SubSeq(s, k, k + Len(lit) - 1) = lit

\* /^fix\(|\bfix:|\bbug\b|\bbugfix\b|\bissue\b/.test(titleLower)
isBugFixTitle(titleLower) ==
    \/ MatchAt(titleLower, 1, "fix(")
    \/ \E k \in 1..Len(titleLower) :
          BoundaryBefore(titleLower, k) /\ MatchAt(titleLower, k, "fix:")
    \/ \E w \in {"bug", "bugfix", "issue"} : \E k \in 1..Len(titleLower) :
          /\ BoundaryBefore(titleLower, k)
          /\ MatchAt(titleLower, k, w)
          /\ BoundaryBefore(titleLower, k + Len(w))

uiElementPatterns ==
    << "button", "submit", "dropdown", "checkbox", "radio", "input", "field",
       "form", "modal", "dialog", "popup", "menu", "tab", "panel", "table",
       "grid", "list", "card", "link", "icon", "image", "tooltip", "notification" >>

behaviorPatterns ==
    << "always available", "always visible", "always enabled", "disabled", "enabled",
       "hidden", "visible", "validation", "required", "optional", "mandatory",
       "editable", "readonly", "clickable", "selectable", "expandable", "collapsible",
       "loading", "error", "success", "warning", "submitted", "saved", "deleted" >>

\* the number of changed files whose lower-cased path ends with one of the suffixes
CountEnding(changedFiles, suffixes) ==
    Cardinality({f \in 1..Len(changedFiles) :
                    \E x \in suffixes : EndsWith(ToLowerCase(changedFiles[f].path), x)})

\* context.fileTypes; both is set from the counters after the loop
fileTypesOf(changedFiles) ==
    [ html |-> CountEnding(changedFiles, {".html", ".htm"}),
      ts   |-> CountEnding(changedFiles, {".ts"}),
      js   |-> CountEnding(changedFiles, {".js", ".jsx"}),
      css  |-> CountEnding(changedFiles, {".css", ".scss", ".sass"}),
      java |-> CountEnding(changedFiles, {".java"}),
      both |-> /\ CountEnding(changedFiles, {".html", ".htm"}) > 0
               /\ CountEnding(changedFiles, {".ts", ".js", ".jsx", ".java"}) > 0 ]

\* context.uiElements / context.behaviors: the patterns found in
\* `${titleLower} ${descLower}`, in pattern order
patternsIn(combined, patterns) == PickIdx(patterns, namesInText(combined, patterns))

\* extractPRContext(prTitle, prDescription, changedFiles)
extractPRContext(prTitle, prDescription, changedFiles) ==
    [ uiElements |-> patternsIn(ToLowerCase(prTitle) \o " " \o ToLowerCase(prDescription),
                                uiElementPatterns),
      behaviors  |-> patternsIn(ToLowerCase(prTitle) \o " " \o ToLowerCase(prDescription),
                                behaviorPatterns),
      isBugFix   |-> isBugFixTitle(ToLowerCase(prTitle)),
      fileTypes  |-> fileTypesOf(changedFiles) ]

integrationBonus(fileTypes, testTitle, bonus) ==
    IF fileTypes.both
    THEN IF SomeIn(testTitle, <<"integration", "end-to-end", "e2e", "workflow", "complete", "full">>)
         THEN 30
         ELSE IF Includes(testTitle, "verify") \/ Includes(testTitle, "test") THEN 15
         ELSE bonus
    ELSE bonus

logicBonus(fileTypes, testTitle, bonus) ==
    IF /\ (fileTypes.ts > 0 \/ fileTypes.js > 0 \/ fileTypes.java > 0) /\ fileTypes.html = 0
       /\ SomeIn(testTitle, <<"validate", "calculate", "process", "save", "submit",
                              "api", "service", "logic", "function">>)
    THEN 20 ELSE bonus

uiBonus(fileTypes, testTitle) ==
    IF /\ fileTypes.html > 0 /\ fileTypes.ts = 0 /\ fileTypes.js = 0 /\ fileTypes.java = 0
       /\ SomeIn(testTitle, <<"display", "render", "visible", "shown", "appear",
                              "ui", "layout", "screen">>)
    THEN 20 ELSE 0

calculateFileTypeRelevance(fileTypes, testTitle) ==
    integrationBonus(fileTypes, testTitle,
                     logicBonus(fileTypes, testTitle, uiBonus(fileTypes, testTitle)))

PathSep == " > "

getSectionPathDepth(testCase) ==
    IF testCase.sectionPath # "" THEN Len(SplitStr(testCase.sectionPath, PathSep)) ELSE 0

\* the names of the list (indices) that some part of the path contains
namesInParts(pathParts, namesLower) ==
    {n \in 1..Len(namesLower) :
        \E p \in 1..Len(pathParts) : Includes(pathParts[p], namesLower[n])}

pathMatchScore(pathParts, componentsLower, areasLower) ==
    IF Len(pathParts) < 2 THEN 0
    ELSE IF namesInParts(pathParts, componentsLower) # {} THEN 30
    ELSE IF namesInParts(pathParts, areasLower) # {} THEN 25
    ELSE 0

\* checkSectionPathMatch(testCase, components, functionalAreas).score
checkSectionPathMatch(testCase, componentsLower, areasLower) ==
    IF testCase.sectionPath = "" THEN 0
    ELSE pathMatchScore(SplitStr(ToLowerCase(testCase.sectionPath), PathSep),
                        componentsLower, areasLower)

specificKeywords ==
    << "form", "button", "field", "page", "screen", "api", "endpoint",
       "submit", "save", "delete", "update", "create", "validate",
       "search", "filter", "sort", "export", "import", "upload", "download" >>

\* isGenericTest(testTitle, components)
isGenericTest(testTitle, componentsLower) ==
    /\ ~SomeIn(testTitle, specificKeywords)
    /\ SomeIn(testTitle, componentsLower)
    /\ Len(SplitRuns(ToLowerCase(testTitle), WhiteSet)) < 8

\* one limit for every size
getMaxTestsForPRSize_widest(filesChanged) == 60

getMaxTestsForPRSize(filesChanged) ==
    IF filesChanged <= 2 THEN 10
    ELSE IF filesChanged <= 5 THEN 15
    ELSE IF filesChanged <= 10 THEN 20
    ELSE IF filesChanged <= 20 THEN 40
    ELSE 60

\* 1. section path matching, over the trimmed parts of the lower-cased path
sectionSignals(pathParts, ctx) ==
    35 * Cardinality(namesInParts(pathParts, ctx.componentsLower))
    + 30 * Cardinality(namesInParts(pathParts, ctx.areasLower))
    + 25 * Cardinality(namesInParts(pathParts, LongerThan(ctx.fileStems, 3)))
    + 20 * Cardinality(namesInParts(pathParts, ctx.keywordsLower))

sectionSignal(testCase, ctx) ==
    IF testCase.sectionPath # ""
    THEN sectionSignals(TrimAll(SplitStr(ToLowerCase(testCase.sectionPath), PathSep)), ctx)
    ELSE 0

\* the words of all components, split on white space, longer than 3
componentWords(componentsLower) ==
    LongerThan(Flatten([c \in 1..Len(componentsLower) |->
                           SplitRuns(componentsLower[c], WhiteSet)]), 3)

\* 2.-5. title matching
titleSignals(title, ctx) ==
    40 * Cardinality(namesInText(title, ctx.areasLower))
    + 30 * Cardinality(namesInText(title, ctx.componentWords))
    + 20 * Cardinality(namesInText(title, ctx.keywordsLower))
    + 35 * Cardinality(namesInText(title, LongerThan(ctx.fileStems, 3)))

apiPatterns == <<"api", "endpoint", "service", "rest", "graphql">>
uiPatterns == <<"screen", "page", "view", "component", "modal", "dialog">>

RECURSIVE SumOver(_)
SumOver(nums) == IF Len(nums) = 0 THEN 0 ELSE nums[1] + SumOver(SubSeq(nums, 2, Len(nums)))

\* 6. API / screen reference match
referenceSignal(searchText, pathsLower) ==
    20 * SumOver([p \in 1..Len(apiPatterns) |->
                     IF Includes(searchText, apiPatterns[p])
                     THEN Cardinality({f \in 1..Len(pathsLower) :
                                          \/ Includes(pathsLower[f], apiPatterns[p])
                                          \/ Includes(pathsLower[f], "api")})
                     ELSE 0])
    + 20 * Cardinality(namesInText(searchText, uiPatterns))
         * Cardinality({f \in 1..Len(pathsLower) :
                           SomeIn(pathsLower[f], <<"component", "view", ".html">>)})

\* 6. critical / smoke bonus
criticalSignal(testCase, title, hasSharedComponentImpact) ==
    IF \/ SomeIn(title, <<"smoke", "critical", "p0", "p1">>)
       \/ (testCase.priority_id # 0 /\ testCase.priority_id <= 2)
    THEN IF hasSharedComponentImpact THEN 50 ELSE 10
    ELSE 0

\* 7. keyword in other fields
fieldSignal(title, searchText, keywordsLower) ==
    5 * Cardinality({k \in 1..Len(keywordsLower) :
                  ~Includes(title, keywordsLower[k]) /\ Includes(searchText, keywordsLower[k])})

\* Math.min(contextScore, 40), for the numbers of UI elements and of
\* behaviours found in the title
contextMatches(elements, behaviors) ==
    MinNum(20 * elements + 15 * behaviors + (IF elements + behaviors >= 2 THEN 20 ELSE 0), 40)

\* 8. PR title / description context
contextSignal(title, prContext) ==
    IF Len(prContext.uiElements) > 0 \/ Len(prContext.behaviors) > 0
    THEN contextMatches(Cardinality(namesInText(title, prContext.uiElements)),
                        Cardinality(namesInText(title, prContext.behaviors)))
    ELSE 0

negativeScenarioKeywords ==
    << "should not", "prevent", "disable", "block", "reject",
       "invalid", "error", "validation", "verify", "edge case" >>

\* 9. bug-fix context
bugFixSignal(title, ctx) ==
    IF ctx.prContext.isBugFix
    THEN (IF SomeIn(title, negativeScenarioKeywords) THEN 25 ELSE 0)
         + (IF SomeIn(title, ctx.componentsLower) /\ Includes(title, "regression") THEN 30 ELSE 0)
    ELSE 0

\* 11. section path depth
pathDepthSignal(testCase, title, ctx) ==
    IF testCase.section_id = 0 THEN 0
    ELSE IF getSectionPathDepth(testCase) >= 2
         THEN checkSectionPathMatch(testCase, ctx.componentsLower, ctx.areasLower)
    ELSE IF getSectionPathDepth(testCase) = 1 /\ isGenericTest(title, ctx.componentsLower)
         THEN -20
    ELSE 0

\* 12. generic test penalty, on the score so far
genericPenalty(score, title, ctx) ==
    IF isGenericTest(title, ctx.componentsLower) /\ score < 50 THEN score - 20 ELSE score

\* the sum of the signals 1 to 11
signalsSum(testCase, ctx, title, searchText) ==
    sectionSignal(testCase, ctx)
    + titleSignals(title, ctx)
    + referenceSignal(searchText, ctx.pathsLower)
    + criticalSignal(testCase, title, ctx.hasSharedComponentImpact)
    + fieldSignal(title, searchText, ctx.keywordsLower)
    + contextSignal(title, ctx.prContext)
    + bugFixSignal(title, ctx)
    + calculateFileTypeRelevance(ctx.prContext.fileTypes, title)
    + pathDepthSignal(testCase, title, ctx)

searchTextOf(testCase) ==
    ToLowerCase(testCase.title) \o " " \o ToLowerCase(testCase.refs) \o " "
        \o ToLowerCase(JSONStringify(testCase.custom_fields))

scoreWith(testCase, ctx, title) ==
    genericPenalty(signalsSum(testCase, ctx, title, searchTextOf(testCase)), title, ctx)

\* the score of one test case before it is capped (lines 336-573)
rawScoreOf(testCase, ctx) == scoreWith(testCase, ctx, ToLowerCase(testCase.title))

\* variant: the score is only kept from going below 0
clampScore_noCeiling(score) == MaxNum(score, 0)

\* Math.min(Math.max(score, 0), 100)
clampScore(score) == MinNum(MaxNum(score, 0), 100)

\* what the method computes once per call, before the loop over the tests
scoringContext(changedFiles, components, keywords, prTitle, prDescription, componentMap) ==
    [ pathsLower      |-> [f \in 1..Len(changedFiles) |-> ToLowerCase(changedFiles[f].path)],
      fileStems       |-> [f \in 1..Len(changedFiles) |-> fileStemOf(changedFiles[f].path)],
      componentsLower |-> LowerAll(components),
      componentWords  |-> componentWords(LowerAll(components)),
      keywordsLower   |-> LowerAll(keywords),
      areasLower      |-> LowerAll(mapFilesToFunctionalAreas(changedFiles, componentMap)),
      hasSharedComponentImpact |->
          \E f \in 1..Len(changedFiles) :
              SomeIn(ToLowerCase(changedFiles[f].path),
                     <<"shared", "core", "common", "utils", "service", "api">>),
      prContext       |-> extractPRContext(prTitle, prDescription, changedFiles) ]

\* scoredTests.sort((a, b) => b.score - a.score): stable, by descending score
rankIn(list, i) ==
    1 + Cardinality({j \in 1..Len(list) :
                  \/ list[j].score > list[i].score
                  \/ (list[j].score = list[i].score /\ j < i)})
sortByScore(list) ==
    [k \in 1..Len(list) |-> list[CHOOSE i \in 1..Len(list) : rankIn(list, i) = k]]

atLeast(scoredTests, threshold) ==
    PickIdx(scoredTests, {i \in 1..Len(scoredTests) : scoredTests[i].score >= threshold})

\* no threshold at all
relevantOf_everyScored(scoredTests) == scoredTests

\* the progressive thresholds 60, 40, 25, then the ten best (lines 591-611)
relevantOf(scoredTests) ==
    IF Len(atLeast(scoredTests, 60)) > 0 THEN atLeast(scoredTests, 60)
    ELSE IF Len(atLeast(scoredTests, 40)) > 0 THEN atLeast(scoredTests, 40)
    ELSE IF Len(atLeast(scoredTests, 25)) > 0 THEN atLeast(scoredTests, 25)
    ELSE SubSeq(scoredTests, 1, MinNum(10, Len(scoredTests)))

\* relevantTests.slice(0, maxTests).map(st => ({...st.testCase, relevanceScore: st.score}))
topOf(relevantTests, maxTests) ==
    [k \in 1..MinNum(maxTests, Len(relevantTests)) |->
        [ id |-> relevantTests[k].testCase.id, title |-> relevantTests[k].testCase.title,
          sectionPath |-> relevantTests[k].testCase.sectionPath,
          relevanceScore |-> relevantTests[k].score ]]

sorted(rawScores, scores, scoredTests, maxTests) ==
    [ rawScores |-> rawScores, scores |-> scores, scoredTests |-> scoredTests,
      topTests |-> topOf(relevantOf(scoredTests), maxTests) ]

\* if (score > 0) scoredTests.push({testCase, score, matchDetails})
pushed(regressionTests, rawScores, scores, maxTests) ==
    sorted(rawScores, scores,
           sortByScore(PickIdx([i \in 1..Len(regressionTests) |->
                                   [testCase |-> regressionTests[i], score |-> scores[i]]],
                               {i \in 1..Len(regressionTests) : scores[i] > 0})),
           maxTests)

capped(regressionTests, rawScores, maxTests) ==
    pushed(regressionTests, rawScores,
           [i \in 1..Len(rawScores) |-> clampScore(rawScores[i])], maxTests)

scoreAll(regressionTests, ctx, maxTests) ==
    capped(regressionTests,
           [i \in 1..Len(regressionTests) |-> rawScoreOf(regressionTests[i], ctx)], maxTests)

\* The whole call; componentMap is config.traceabilityMatrix.components as
\* the list of its entries.  The record returned carries the list returned
\* (topTests) and the method's locals.
scoreRegressionTestsForRelevance(regressionTests, changedFiles, components, keywords, prTitle, prDescription, componentMap) ==
    scoreAll(regressionTests,
             scoringContext(changedFiles, components, keywords, prTitle, prDescription, componentMap),
             getMaxTestsForPRSize(Len(changedFiles)))

-----------------------------------------------------------------------------
(* Raw changed-file entries as the Bitbucket APIs deliver them             *)

Arr == [t |-> "array"]

\* an entry whose path is a flat string
FlatFile(path) ==
    [ path |-> Str(path), new |-> Undef, old |-> Undef,
      linesAdded |-> 0, linesRemoved |-> 0, lines_added |-> 0, lines_removed |-> 0 ]

\* Bitbucket Cloud diffstat entry: new/old pair, lines_added/lines_removed
CloudFile(path) ==
    [ path |-> Undef, new |-> Obj(<<Prop("path", Str(path))>>), old |-> Undef,
      linesAdded |-> 0, linesRemoved |-> 0, lines_added |-> 0, lines_removed |-> 0 ]

\* Bitbucket Server change entry: path object with components/parent/name/extension/toString
ServerFile(parent, name) ==
    [ path |-> Obj(<< Prop("components", Arr), Prop("parent", Str(parent)),
                      Prop("name", Str(name)), Prop("extension", Str("js")),
                      Prop("toString", Str(parent \o "/" \o name)) >>),
      new |-> Undef, old |-> Undef,
      linesAdded |-> 0, linesRemoved |-> 0, lines_added |-> 0, lines_removed |-> 0 ]

\* an entry without any resolvable path
NoPathFile ==
    [ path |-> Undef, new |-> Undef, old |-> Undef,
      linesAdded |-> 0, linesRemoved |-> 0, lines_added |-> 0, lines_removed |-> 0 ]

\* the entry with n changed lines (a third of them removed)
WithLines(f, n) ==
    IF IsObj(f.new)
    THEN [f EXCEPT !.lines_added = n - n \div 3, !.lines_removed = n \div 3]
    ELSE [f EXCEPT !.linesAdded = n - n \div 3, !.linesRemoved = n \div 3]

Rep(e, n) == [i \in 1..n |-> e]

\* the list whose first entry carries all the changed lines
CarryLines(files, n) ==
    IF Len(files) = 0 THEN files
    ELSE <<WithLines(files[1], n)>> \o SubSeq(files, 2, Len(files))

MaxStyle == 1
MaxShared == 4
MaxPlain == 11
MaxLines == 1500

StyleCounts == {0, MaxStyle}
SharedCounts == {0, 2, MaxShared}
PlainCounts == {0, 1, 7, MaxPlain}
LineCounts == {0, 10, 120, 810, MaxLines}

PRTitles == {"Quick Fix for login", "Add new reporting widget", "SMALL tweak"}

ChangeLists ==
    { CarryLines(Rep(FlatFile("ui/main.css"), ns)
                 \o Rep(CloudFile("src/shared/api.js"), nsh)
                 \o Rep(FlatFile("src/app/login.js"), np), n) :
        ns \in StyleCounts, nsh \in SharedCounts, np \in PlainCounts, n \in LineCounts }

\* small changes for comparing two classifications side by side
MaxPairFiles == 2
PairFiles == { FlatFile("ui/main.css"), FlatFile("src/app/login.js"),
               ServerFile("src/styles", "theme.js"), NoPathFile }
PairLists ==
    UNION { [1..n -> {WithLines(f, 10) : f \in PairFiles}] : n \in 0..MaxPairFiles }
PairTitles == {"Quick Fix for login", "Add new reporting widget"}

Slots == {1, 2}

-----------------------------------------------------------------------------
(* The test repository and the arguments of getImpactedTestCases           *)

Section(id, name, parent) == [id |-> id, name |-> name, parent_id |-> parent]
Case(id, title, refs, section) ==
    [id |-> id, title |-> title, refs |-> refs, section_id |-> section]

SuiteSections ==
    << Section(1, "Forms", 0), Section(2, "Applicant", 1),
       Section(3, "Webform", 2), Section(4, "Regression", 0) >>

CasePool ==
    { Case(101, "Webform submit button disabled", "", 3),
      Case(102, "Login works", "proj-1, PROJ-22", 4),
      Case(103, "Webform regression", "PROJ-1", 3) }

MaxCases == 2
Inventories == UNION { [1..n -> CasePool] : n \in 0..MaxCases }

TicketIds == {"", "PROJ-1"}

ComponentLabels == {"Applicant-Webform", "Admin"}
MaxComponents == 2
ComponentLists == UNION { [1..n -> ComponentLabels] : n \in 0..MaxComponents }

Entry(name, tags) == [name |-> name, tags |-> tags]
Tables ==
    { <<>>,
      << Entry("Webform", <<"webform", "form-submission">>),
         Entry("Templates", <<"template">>) >> }

TicketTitles == {"", "Submit button is disabled"}

ChangedFileLists ==
    { <<>>, <<[path |-> "src/forms/webform.component.ts"]>>,
      <<[path |-> "src/auth/LoginService.js"]>> }

Categories == {"Relaxed PR", "Sleepy PR", "Sarcastic PR", "Overloaded PR", "Angry PR"}

\* every combination under the default category, and every category for one ticket
ImpactOptions ==
    [ jiraId : TicketIds, changedFiles : ChangedFileLists,
      traceabilityMatrix : Tables, jiraTitle : TicketTitles,
      prCategory : {"Relaxed PR"}, jiraComponents : ComponentLists ]
    \cup
    [ jiraId : {"PROJ-1"}, changedFiles : {<<>>},
      traceabilityMatrix : Tables, jiraTitle : {""},
      prCategory : Categories, jiraComponents : {<<"Applicant-Webform">>} ]

-----------------------------------------------------------------------------
(* The arguments of scoreRegressionTestsForRelevance                       *)

Test(id, title, refs, fields, path, section, priority) ==
    [ id |-> id, title |-> title, refs |-> refs, custom_fields |-> fields,
      sectionPath |-> path, section_id |-> section, priority_id |-> priority ]

\* section paths as getSectionsWithHierarchy joins them
TestPool ==
    { Test(201, "Verify Webform submit button disabled when required", "PROJ-1", <<>>,
           "Forms > Applicant > Webform", 3, 1),
      Test(202, "Reports overview", "", <<>>, "Regression", 4, 3),
      Test(203, "Smoke: login page", "",
           <<[key |-> "custom_notes", value |-> "REST endpoint"]>>, "", 0, 0),
      Test(204, "Export audit log", "", <<>>, "Regression > Audit", 5, 4) }

MaxTests == 2
TestLists == UNION { [1..n -> TestPool] : n \in 0..MaxTests }

ScoreFiles ==
    { <<>>,
      <<[path |-> "src/forms/webform.component.ts"]>>,
      <<[path |-> "src/shared/api/ReportService.js"],
        [path |-> "src/forms/webform.component.html"]>> }

ScoreComponents == { <<"Webform">>, <<"Reports", "Applicant Webform">> }

ScoreKeywords == { <<>>, <<"webform", "endpoint">> }

PRTexts ==
    { [title |-> "", description |-> ""],
      [title |-> "fix: Webform submit button is disabled",
       description |-> "The button must be always available"],
      [title |-> "Add reporting widget", description |-> ""] }

-----------------------------------------------------------------------------
(* Actions                                                                 *)

\* Each behaviour follows one request per slot: the services keep nothing
\* between calls, so a call starts from the idle state.
\* A call analyzePR(pr, files) in request slot s
AnalyzePR(s, titles, lists) ==
    \E title \in titles, files \in lists :
        LET pr == [title |-> title] IN
        /\ analysis[s] = None
        /\ analysis' = [analysis EXCEPT ![s] =
                            [pr |-> pr, files |-> files, result |-> analyzePR(pr, files)]]
        /\ UNCHANGED <<impact, scored, regression, jira, upload, resolution, extracted, reply, dashboard, inventory>>

\* a call getImpactedTestCases(suiteId, options) against a repository that answers
GetImpactedTestCases ==
    \E cases \in Inventories, options \in ImpactOptions :
        LET server == [up |-> TRUE, sections |-> SuiteSections, cases |-> cases] IN
        /\ impact = None
        /\ impact' = [ server |-> server, options |-> options,
                       call |-> getImpactedTestCases(server, options) ]
        /\ UNCHANGED <<analysis, scored, regression, jira, upload, resolution, extracted, reply, dashboard, inventory>>

\* the same call when a request to the repository fails: the catch block rethrows
GetImpactedTestCasesFails ==
    \E options \in ImpactOptions :
        LET server == [up |-> FALSE, sections |-> <<>>, cases |-> <<>>] IN
        /\ impact = None
        /\ impact' = [ server |-> server, options |-> options,
                       call |-> getImpactedTestCases(server, options) ]
        /\ UNCHANGED <<analysis, scored, regression, jira, upload, resolution, extracted, reply, dashboard, inventory>>

\* a call scoreRegressionTestsForRelevance(regressionTests, changedFiles,
\* components, keywords, prTitle, prDescription) under a configured table
ScoreRegressionTests ==
    \E tests \in TestLists, files \in ScoreFiles, components \in ScoreComponents,
       keywords \in ScoreKeywords, pr \in PRTexts, componentMap \in Tables :
        /\ scored = None
        /\ scored' = [ regressionTests |-> tests, changedFiles |-> files,
                       components |-> components, keywords |-> keywords, pr |-> pr,
                       componentMap |-> componentMap,
                       call |-> scoreRegressionTestsForRelevance(
                                    tests, files, components, keywords,
                                    pr.title, pr.description, componentMap) ]
        /\ UNCHANGED <<analysis, impact, regression, jira, upload, resolution, extracted, reply, dashboard, inventory>>

Classify == AnalyzePR(1, PRTitles, ChangeLists)

ClassifyPair == \E s \in Slots : AnalyzePR(s, PairTitles, PairLists)

\* a request on the shared JiraService that has not begun
IdleStory == [pc |-> "idle"]

\* new JiraService(config): lastIssueId is not set (0 stands for undefined)
NewJiraService == [lastIssueId |-> 0, req |-> [s \in Slots |-> IdleStory]]

\* an upload request that has not begun
IdleUpload ==
    [ pc |-> "idle", folderName |-> "", testCases |-> <<>>, jiraIds |-> "",
      sectionId |-> 0, check |-> "none", success |-> <<>>, failed |-> <<>>, progress |-> <<>> ]

\* the TestRail project before the uploads: the suite's sections and one case
\* that references PROJ-1 in the Webform section
TestRailStore ==
    [ sections |-> SuiteSections, cases |-> <<Case(103, "Webform regression", "PROJ-1", 3)>>,
      nextId |-> 500, req |-> [s \in Slots |-> IdleUpload] ]

\* the dashboard page after DOMContentLoaded: nothing generated, displayed or selected
LoadedDashboard == [generatedTestCases |-> <<>>, items |-> <<>>, selectedTestCases |-> {}]

InitIdle ==
    /\ analysis = [s \in Slots |-> None]
    /\ impact = None
    /\ scored = None
    /\ regression = None
    /\ jira = NewJiraService
    /\ upload = TestRailStore
    /\ resolution = None
    /\ extracted = None
    /\ reply = None
    /\ dashboard = LoadedDashboard
    /\ inventory = None

Called(x) == x # None

NextClassify == Classify
SpecClassify == InitIdle /\ [][NextClassify]_vars

NextImpact == GetImpactedTestCases \/ GetImpactedTestCasesFails
SpecImpact == InitIdle /\ [][NextImpact]_vars

NextScore == ScoreRegressionTests
SpecScore == InitIdle /\ [][NextScore]_vars

NextClassifyPair == ClassifyPair
SpecClassifyPair == InitIdle /\ [][NextClassifyPair]_vars

-----------------------------------------------------------------------------
(* Relevance scorer: claim C1                                              *)

\* C1: the score a test case is given after all bonuses and penalties lies
\* in 0..100, and no returned test carries a relevanceScore outside 0..100.
C1_ScoreWithinBounds ==
    Called(scored) =>
        /\ \A i \in 1..Len(scored.call.scores) : scored.call.scores[i] \in 0..100
        /\ \A k \in 1..Len(scored.call.topTests) :
              scored.call.topTests[k].relevanceScore \in 0..100

\* one run in which the signals of a test add up to more than 100 and it is
\* returned with 100, while the penalties take another test below 0
C1_Witness ==
    /\ Called(scored)
    /\ \E i \in 1..Len(scored.call.rawScores) :
          /\ scored.call.rawScores[i] > 100
          /\ \E k \in 1..Len(scored.call.topTests) :
                /\ scored.call.topTests[k].id = scored.regressionTests[i].id
                /\ scored.call.topTests[k].relevanceScore = 100
    /\ \E j \in 1..Len(scored.call.rawScores) : scored.call.rawScores[j] < 0

-----------------------------------------------------------------------------
(* Change classifier: claims C7, C8, C9                                    *)

\* C7: the category is the first, in the order Sleepy, Sarcastic, Overloaded,
\* Angry, Relaxed, whose condition holds; a later condition never overrides
\* an earlier one that holds.  (riskScore is the classifier's risk value
\* min(100, files + 10*shared + 0.05*lines), compared in twentieths.)
C7_FirstMatchingCategory ==
    Called(analysis[1]) =>
        LET a == analysis[1]
            m == a.result.metrics
            n == Len(a.files)
            style == m.onlyStyleChanges
            minor == \E w \in {"minor", "quick", "small", "fix"} :
                        Includes(ToLowerCase(a.pr.title), w)
            sarcastic == minor /\ (n > 5 \/ m.linesChanged > 100)
            overloaded == \/ m.sharedComponents > 3
                          \/ n * 20 + m.sharedComponents * 200 + m.linesChanged > 1700
            angry == n > 10 \/ m.linesChanged > 500
            c == a.result.category
        IN  /\ style => c = "Sleepy PR"
            /\ (~style /\ sarcastic) => c = "Sarcastic PR"
            /\ (~style /\ ~sarcastic /\ overloaded) => c = "Overloaded PR"
            /\ (~style /\ ~sarcastic /\ ~overloaded /\ angry) => c = "Angry PR"
            /\ (~style /\ ~sarcastic /\ ~overloaded /\ ~angry) => c = "Relaxed PR"

\* an Overloaded change that also meets the Angry condition
C7_Witness ==
    /\ Called(analysis[1])
    /\ analysis[1].result.category = "Overloaded PR"
    /\ analysis[1].result.metrics.filesChanged > 10
    /\ analysis[1].result.metrics.linesChanged > 500

\* C8: the returned riskScore is the rounded, capped sum and lies in 0..100,
\* and the returned riskLevel is Low iff riskScore < 30, Medium iff
\* 30 <= riskScore < 70, High iff riskScore >= 70.
C8_RiskLevelMatchesScore ==
    Called(analysis[1]) =>
        LET a == analysis[1]
            m == a.result.metrics
            sum20 == Len(a.files) * 20 + m.sharedComponents * 200 + m.linesChanged
            capped20 == IF sum20 < 2000 THEN sum20 ELSE 2000
            rs == a.result.riskScore
            lvl == a.result.riskLevel
        IN  /\ rs = (capped20 + 10) \div 20
            /\ rs \in 0..100
            /\ (lvl = "Low") <=> (rs < 30)
            /\ (lvl = "Medium") <=> (rs >= 30 /\ rs < 70)
            /\ (lvl = "High") <=> (rs >= 70)

\* C9 as claimed: two changes that agree on (filesChanged, sharedComponents,
\* linesChanged, title) receive the same category.
C9_CategoryOfFourValues ==
    (Called(analysis[1]) /\ Called(analysis[2])) =>
        LET a == analysis[1]
            b == analysis[2]
        IN  ( /\ a.result.metrics.filesChanged = b.result.metrics.filesChanged
              /\ a.result.metrics.sharedComponents = b.result.metrics.sharedComponents
              /\ a.result.metrics.linesChanged = b.result.metrics.linesChanged
              /\ a.pr.title = b.pr.title )
            => a.result.category = b.result.category

\* C9 amended: two changes that agree on the four values and on whether
\* every changed file is a style file receive the same category.
C9_CategoryOfFiveValues ==
    (Called(analysis[1]) /\ Called(analysis[2])) =>
        LET a == analysis[1]
            b == analysis[2]
        IN  ( /\ a.result.metrics.filesChanged = b.result.metrics.filesChanged
              /\ a.result.metrics.sharedComponents = b.result.metrics.sharedComponents
              /\ a.result.metrics.linesChanged = b.result.metrics.linesChanged
              /\ a.pr.title = b.pr.title
              /\ a.result.metrics.onlyStyleChanges = b.result.metrics.onlyStyleChanges )
            => a.result.category = b.result.category

\* two changes with different file paths that agree on all five values
C9_Witness ==
    /\ Called(analysis[1]) /\ Called(analysis[2])
    /\ analysis[1].files # analysis[2].files
    /\ Len(analysis[1].files) > 0
    /\ analysis[1].result.metrics = analysis[2].result.metrics
    /\ analysis[1].pr.title = analysis[2].pr.title

-----------------------------------------------------------------------------
(* Impact selector: claims C2, C3, C4, C5, C6, C10                         *)

Returned == Called(impact) /\ impact.call.outcome = "return"

\* the inventory entries whose reference field contains the ticket id,
\* read off the repository's cases
Mentioning ==
    {i \in 1..Len(impact.server.cases) :
        LET refs == ToLowerCase(impact.server.cases[i].refs)
            id == ToLowerCase(impact.options.jiraId)
        IN  \E k \in 1..Len(refs) : \E l \in k..Len(refs) : SubSeq(refs, k, l) = id}

\* C2: with a non-empty ticket id, every test case whose reference field
\* contains the id (case-insensitively) is in directJiraMatch.
C2_DirectMatchesComplete ==
    (Returned /\ impact.options.jiraId # "") =>
        \A i \in Mentioning :
            \E k \in 1..Len(impact.call.results.directJiraMatch) :
                impact.call.results.directJiraMatch[k].id = impact.server.cases[i].id

\* a direct match whose reference spells the id in another case and whose
\* section matches no component
C2_Witness ==
    /\ Returned /\ impact.options.jiraId # ""
    /\ impact.options.jiraComponents # <<>>
    /\ \E i \in Mentioning :
        /\ ~Includes(impact.server.cases[i].refs, impact.options.jiraId)
        /\ \A m \in 1..Len(impact.call.componentMatches) :
              impact.call.componentMatches[m].testCase.id # impact.server.cases[i].id
        /\ \E k \in 1..Len(impact.call.results.directJiraMatch) :
              impact.call.results.directJiraMatch[k].id = impact.server.cases[i].id

\* C3: allCases holds every test-case id at most once.
C3_AllCasesDistinct ==
    Returned =>
        LET all == impact.call.results.allCases
        IN  \A i \in 1..Len(all), j \in 1..Len(all) : i # j => all[i].id # all[j].id

\* a case found by the direct stage and by the component stage, in an
\* inventory that lists an id twice
C3_Witness ==
    /\ Returned
    /\ \E i \in 1..Len(impact.server.cases), j \in 1..Len(impact.server.cases) :
          i # j /\ impact.server.cases[i].id = impact.server.cases[j].id
    /\ \E d \in 1..Len(impact.call.results.directJiraMatch),
          m \in 1..Len(impact.call.step3Matches) :
          impact.call.results.directJiraMatch[d].id = impact.call.step3Matches[m].testCase.id

EmptyResults ==
    [ directJiraMatch |-> <<>>, componentMatch |-> <<>>, componentWithKeywords |-> <<>>,
      allCases |-> <<>>, groupedByModule |-> <<>> ]

\* C4: when the repository answers and neither the direct stage nor the
\* component stage matches anything, the call returns, without error, the
\* result with empty lists and an empty grouping.
C4_EmptyResultIsReturned ==
    (Called(impact) /\ impact.server.up /\ (impact.options.jiraId = "" \/ Mentioning = {})) =>
        /\ impact.call.outcome = "return"
        /\ (impact.options.jiraComponents = <<>> \/ impact.call.componentMatches = <<>>)
              => /\ impact.call.results = EmptyResults
                 /\ DOMAIN impact.call.results.groupedByModule = {}

\* nothing matches in a non-empty inventory, for a ticket with components
C4_Witness ==
    /\ Returned
    /\ Len(impact.server.cases) > 0
    /\ impact.options.jiraId # "" /\ Mentioning = {}
    /\ impact.options.jiraComponents # <<>> /\ impact.call.componentMatches = <<>>
    /\ impact.call.results = EmptyResults

\* C5: every test case collected by the component stage is in the
\* componentMatch collection of the result.
C5_ComponentMatchesReturned ==
    Returned =>
        \A m \in 1..Len(impact.call.componentMatches) :
            \E k \in 1..Len(impact.call.results.componentMatch) :
                impact.call.results.componentMatch[k].id
                    = impact.call.componentMatches[m].testCase.id

\* C6: every non-empty component label resolves to a non-empty tag set.
C6_TagsNeverEmpty ==
    Returned =>
        \A c \in 1..Len(impact.options.jiraComponents) :
            impact.options.jiraComponents[c] # "" => impact.call.tags[c] # <<>>

\* C10: the result carries maxTestCases, the cap of the change category,
\* next to the untruncated allCases.
C10_ResultCarriesCap ==
    Returned =>
        /\ "maxTestCases" \in DOMAIN impact.call.results
        /\ impact.call.results.maxTestCases =
              ( CASE impact.options.prCategory = "Relaxed PR" -> 20
                  [] impact.options.prCategory = "Sleepy PR" -> 30
                  [] impact.options.prCategory = "Sarcastic PR" -> 40
                  [] impact.options.prCategory = "Overloaded PR" -> 60
                  [] impact.options.prCategory = "Angry PR" -> 80 )

-----------------------------------------------------------------------------
(* Impact selector: claims C11, C12                                        *)

\* the test cases of a list of matches, in order
CasesOf(matches) == [i \in 1..Len(matches) |-> matches[i].testCase]

\* the test case's section path or title contains one of the keywords
MentionsOneOf(tc, kws) ==
    \E k \in 1..Len(kws) :
        \/ Includes(ToLowerCase(tc.sectionPath), ToLowerCase(kws[k]))
        \/ Includes(ToLowerCase(tc.title), ToLowerCase(kws[k]))

\* what a keyword stage must put out for the matches it is given
Narrowed(matches, kws) ==
    IF kws = <<>> THEN CasesOf(matches)
    ELSE PickIdx(CasesOf(matches), {i \in 1..Len(matches) : MentionsOneOf(matches[i].testCase, kws)})

\* C11: each keyword stage passes its input through, in order, when its
\* keyword set is empty, and otherwise keeps exactly the matches whose
\* section path or title contains a keyword; the survivors of the file
\* stage are among those of the title stage, which are component matches.
C11_KeywordStagesNarrow ==
    (Returned /\ impact.options.jiraComponents # <<>>) =>
        /\ CasesOf(impact.call.step2Matches)
              = Narrowed(impact.call.componentMatches, impact.call.jiraTitleKeywords)
        /\ CasesOf(impact.call.step3Matches)
              = Narrowed(impact.call.step2Matches, filenameKeywordsOf(impact.options.changedFiles))
        /\ impact.call.jiraTitleKeywords = <<>>
              => impact.call.step2Matches = impact.call.componentMatches
        /\ filenameKeywordsOf(impact.options.changedFiles) = <<>>
              => impact.call.step3Matches = impact.call.step2Matches
        /\ \A i \in 1..Len(impact.call.step3Matches) :
              \E j \in 1..Len(impact.call.step2Matches) :
                  impact.call.step2Matches[j].testCase = impact.call.step3Matches[i].testCase
        /\ \A i \in 1..Len(impact.call.step2Matches) :
              \E j \in 1..Len(impact.call.componentMatches) :
                  impact.call.componentMatches[j].testCase = impact.call.step2Matches[i].testCase

\* the title stage drops one of two component matches and the file stage,
\* with keywords of its own, keeps the other
C11_Witness ==
    /\ Returned
    /\ impact.call.jiraTitleKeywords # <<>>
    /\ filenameKeywordsOf(impact.options.changedFiles) # <<>>
    /\ Len(impact.call.componentMatches) = 2
    /\ Len(impact.call.step2Matches) = 1
    /\ Len(impact.call.step3Matches) = 1

\* ids of the inventory entries that reference the ticket, in inventory
\* order, each id once
DirectIds ==
    IF impact.options.jiraId = "" THEN <<>>
    ELSE Unique(PickIdx([i \in 1..Len(impact.server.cases) |-> impact.server.cases[i].id], Mentioning))

\* ids of the survivors of the file stage, in the order the stage found them
SurvivorIds ==
    IF impact.options.jiraComponents = <<>> THEN <<>>
    ELSE [i \in 1..Len(impact.call.step3Matches) |-> impact.call.step3Matches[i].testCase.id]

\* the survivors that are no direct match
LateIds ==
    PickIdx(SurvivorIds,
            {i \in 1..Len(SurvivorIds) : \A k \in 1..Len(DirectIds) : DirectIds[k] # SurvivorIds[i]})

\* C12: allCases is the direct matches in inventory order followed by the
\* survivors of the file stage that are no direct match, in the order they
\* were found; every survivor is in allCases.
C12_AllCasesOrder ==
    Returned =>
        /\ IdsOf(impact.call.results.allCases) = DirectIds \o Unique(LateIds)
        /\ \A i \in 1..Len(SurvivorIds) :
              \E k \in 1..Len(impact.call.results.allCases) :
                  impact.call.results.allCases[k].id = SurvivorIds[i]

\* a direct match listed in the inventory after a component case that is no
\* direct match: allCases puts the direct match first
C12_Witness ==
    /\ Returned
    /\ Len(DirectIds) = 1 /\ Len(LateIds) = 1
    /\ Len(impact.server.cases) = 2
    /\ impact.server.cases[1].id = LateIds[1]
    /\ impact.server.cases[2].id = DirectIds[1]
    /\ IdsOf(impact.call.results.allCases) = <<DirectIds[1], LateIds[1]>>

-----------------------------------------------------------------------------
(* TestRailService.getSectionsWithHierarchy and getRegressionTestCases     *)
(* The server answers get_sections when sectionsUp and get_cases when      *)
(* casesUp; a request to a server that does not answer rejects.            *)

\* section.path = path.join(' > ') for every section (lines 1015-1024)
hierarchyPaths(sections) ==
    [i \in 1..Len(sections) |->
        [ id |-> sections[i].id, name |-> sections[i].name,
          parent_id |-> sections[i].parent_id,
          path |-> Join(walkParents(sections, i, {}).parts, PathSep) ]]

\* getSectionsWithHierarchy(suiteId): the catch block rethrows (lines 1000-1030)
getSectionsWithHierarchy(server) ==
    IF ~server.sectionsUp THEN [outcome |-> "throw", value |-> <<>>]
    ELSE IF pathsLoop(server.sections) THEN [outcome |-> "hang", value |-> <<>>]
    ELSE [outcome |-> "return", value |-> hierarchyPaths(server.sections)]

\* s.name or s.path contains the keyword, case-insensitively (lines 218-225)
isRegressionSection(s, keyword) ==
    \/ Includes(ToLowerCase(s.name), ToLowerCase(keyword))
    \/ (s.path # "" /\ Includes(ToLowerCase(s.path), ToLowerCase(keyword)))

\* tc.sectionPath = sectionPathMap.get(tc.section_id) when the map has it
\* (lines 239-243, 273-277)
enrichAll(cases, sections) ==
    [i \in 1..Len(cases) |->
        [ id |-> cases[i].id, title |-> cases[i].title, refs |-> cases[i].refs,
          section_id |-> cases[i].section_id,
          sectionPath |-> IF cases[i].section_id # 0 /\ sectionMapHas(sections, cases[i].section_id)
                          THEN sections[sectionMapIdx(sections, cases[i].section_id)].path
                          ELSE "" ]]

\* the cases the server lists for one section, each given that section's
\* path (lines 253-263)
casesOfSection(cases, section) ==
    [i \in 1..Len(cases) |->
        [ id |-> cases[i].id, title |-> cases[i].title, refs |-> cases[i].refs,
          section_id |-> cases[i].section_id,
          sectionPath |-> IF section.path # "" THEN section.path ELSE section.name ]]

\* for (const section of regressionSections) allCases.push(...cases)
sectionCases(server, regressionSections) ==
    Flatten([k \in 1..Len(regressionSections) |->
        casesOfSection(
            PickIdx(server.cases,
                    {i \in 1..Len(server.cases) :
                        server.cases[i].section_id = regressionSections[k].id}),
            regressionSections[k])])

\* the try block once the sections are there (lines 211-281): every branch
\* sends at least one get_cases request, and a rejected request lands in the
\* catch block, which returns [] (lines 282-285)
regressionCases(server, method, regressionSections, sections) ==
    IF ~server.casesUp
    THEN [outcome |-> "return", value |-> <<>>]
    ELSE [outcome |-> "return",
          value |-> IF method = "folder" /\ Len(regressionSections) > 0
                    THEN sectionCases(server, regressionSections)
                    ELSE enrichAll(server.cases, sections)]

\* the same catch block takes the error of getSectionsWithHierarchy
afterSections(server, method, keyword, fetched) ==
    IF fetched.outcome = "throw" THEN [outcome |-> "return", value |-> <<>>]
    ELSE IF fetched.outcome = "hang" THEN [outcome |-> "hang", value |-> <<>>]
    ELSE regressionCases(server, method,
             PickIdx(fetched.value,
                     {i \in 1..Len(fetched.value) : isRegressionSection(fetched.value[i], keyword)}),
             fetched.value)

\* getRegressionTestCases(suiteId, method, keyword) (lines 197-286)
getRegressionTestCases(server, method, keyword) ==
    afterSections(server, method, keyword, getSectionsWithHierarchy(server))

\* what config.regressionIdentification can hold
RegressionMethods == {"folder", "field"}
FolderKeywords == {"Regression", "Smoke"}

\* a test repository whose two endpoints answer or fail independently
Servers ==
    { [sectionsUp |-> su, casesUp |-> cu, sections |-> SuiteSections, cases |-> cases] :
        su \in BOOLEAN, cu \in BOOLEAN, cases \in Inventories }

\* a call getRegressionTestCases(suiteId, method, keyword)
GetRegressionTestCases ==
    \E server \in Servers, method \in RegressionMethods, keyword \in FolderKeywords :
        /\ regression = None
        /\ regression' = [ server |-> server, method |-> method, keyword |-> keyword,
                           call |-> getRegressionTestCases(server, method, keyword) ]
        /\ UNCHANGED <<analysis, impact, scored, jira, upload, resolution, extracted, reply, dashboard, inventory>>

NextRegression == GetRegressionTestCases
SpecRegression == InitIdle /\ [][NextRegression]_vars

-----------------------------------------------------------------------------
(* Fetch failures: claim C13                                               *)

\* C13: when a fetch of the test repository fails during
\* getRegressionTestCases, the call ends in an error and returns no list.
C13_FailedFetchIsAnError ==
    (Called(regression) /\ ~(regression.server.sectionsUp /\ regression.server.casesUp)) =>
        regression.call.outcome = "throw"

-----------------------------------------------------------------------------
(* JiraService.getStoryDetails and getLinkedPRs on the one shared instance *)
(* Each await is a step: between two steps of a request the steps of the   *)
(* other request can run. The JIRA site holds the issues of Stories.       *)

RemoteLink(url, title, resolved) == [url |-> url, title |-> title, resolved |-> resolved]
DevPR(url, name, status) == [url |-> url, name |-> name, status |-> status]
Issue(key, id, summary, components, remoteLinks, pullRequests) ==
    [ key |-> key, id |-> id, summary |-> summary, components |-> components,
      remoteLinks |-> remoteLinks, pullRequests |-> pullRequests ]

Stories ==
    << Issue("PROJ-1", 10001, "Submit button is disabled", <<"Applicant-Webform">>,
             << RemoteLink("https://bb/projects/P/repos/r/pull-requests/1", "PR 1", TRUE),
                RemoteLink("https://wiki/PROJ-1", "Design", FALSE) >>,
             << DevPR("https://bb/projects/P/repos/r/pull-requests/1", "PR 1", "MERGED"),
                DevPR("https://bb/projects/P/repos/r/pull-requests/3", "", "OPEN") >>),
       Issue("PROJ-2", 10002, "Login fails", <<"Admin">>,
             <<>>,
             << DevPR("https://bb/projects/P/repos/r/pull-requests/2", "PR 2", "OPEN") >>) >>

StoryKeys == {Stories[i].key : i \in 1..Len(Stories)}
storyByKey(key) == Stories[CHOOSE i \in 1..Len(Stories) : Stories[i].key = key]
storyById(id) == Stories[CHOOSE i \in 1..Len(Stories) : Stories[i].id = id]

\* the remote links that point at a pull request, as {url, title, status}
\* (lines 160-175)
isPRUrl(url) ==
    Includes(url, "pull-request") \/ Includes(url, "/pull/") \/ Includes(url, "/commits/")
asPRLinks(links) ==
    [i \in 1..Len(links) |->
        [ url |-> links[i].url, title |-> links[i].title,
          status |-> IF links[i].resolved THEN "merged" ELSE "open" ]]
remoteLinksOf(links) ==
    asPRLinks(PickIdx(links, {k \in 1..Len(links) : isPRUrl(links[k].url)}))

\* detail.pullRequests.forEach(pr => prLinks.push(...)) (lines 228-236)
devLinksOf(pullRequests) ==
    [i \in 1..Len(pullRequests) |->
        [ url |-> pullRequests[i].url,
          title |-> IF pullRequests[i].name # "" THEN pullRequests[i].name ELSE "Pull Request",
          status |-> IF pullRequests[i].status = "MERGED" THEN "merged" ELSE "open" ]]

\* Array.from(new Map(prLinks.map(pr => [pr.url, pr])).values()): a url keeps
\* the place of its first entry and the value of its last (lines 246-249)
uniquePRs(prLinks) ==
    [i \in 1..Len(Unique([k \in 1..Len(prLinks) |-> prLinks[k].url])) |->
        prLinks[CHOOSE k \in 1..Len(prLinks) :
                   /\ prLinks[k].url = Unique([n \in 1..Len(prLinks) |-> prLinks[n].url])[i]
                   /\ \A n \in (k + 1)..Len(prLinks) : prLinks[n].url # prLinks[k].url]]

\* the pull requests the dev-status endpoint ep lists: the first is asked by
\* issue key, the second and third by the issue id read off the instance
\* (lines 191-208)
devAnswer(r, ep) ==
    IF ep = 1 THEN storyByKey(r.jiraId).pullRequests
    ELSE storyById(r.issueId).pullRequests

\* the value getStoryDetails resolves to (lines 63-73)
storyResult(r, prLinks) ==
    [ pc |-> "done", jiraId |-> r.jiraId, issueId |-> r.issueId,
      result |-> [ key |-> r.issue.key, summary |-> r.issue.summary,
                   components |-> r.issue.components,
                   linkedPRs |-> uniquePRs(prLinks) ] ]

\* getStoryDetails(jiraId) begins: GET /issue/{jiraId} is sent
StartStory(s) ==
    \E jiraId \in StoryKeys :
        /\ jira.req[s].pc = "idle"
        /\ jira' = [jira EXCEPT !.req[s] = [pc |-> "issue", jiraId |-> jiraId]]
        /\ UNCHANGED <<analysis, impact, scored, regression, upload, resolution, extracted, reply, dashboard, inventory>>

\* the issue arrives: this.lastIssueId = issue.id, then getLinkedPRs sends
\* GET /issue/{jiraId}/remotelink (lines 52-61, 149-155)
IssueArrives(s) ==
    /\ jira.req[s].pc = "issue"
    /\ jira' = [jira EXCEPT
                  !.lastIssueId = storyByKey(jira.req[s].jiraId).id,
                  !.req[s] = [ pc |-> "remote", jiraId |-> jira.req[s].jiraId,
                               issue |-> storyByKey(jira.req[s].jiraId) ]]
    /\ UNCHANGED <<analysis, impact, scored, regression, upload, resolution, extracted, reply, dashboard, inventory>>

\* the issue request rejects: getStoryDetails throws (lines 75-78)
IssueFails(s) ==
    /\ jira.req[s].pc = "issue"
    /\ jira' = [jira EXCEPT !.req[s] = [pc |-> "failed", jiraId |-> jira.req[s].jiraId]]
    /\ UNCHANGED <<analysis, impact, scored, regression, upload, resolution, extracted, reply, dashboard, inventory>>

\* the remote links arrive, or the request rejects and is only logged; then
\* devEndpoints is built from jiraId and this.lastIssueId and the first
\* endpoint is asked (lines 156-213)
RemoteLinksSettle(s) ==
    \E ok \in BOOLEAN :
        /\ jira.req[s].pc = "remote"
        /\ jira' = [jira EXCEPT !.req[s] =
                      [ pc |-> "dev", jiraId |-> jira.req[s].jiraId, issue |-> jira.req[s].issue,
                        prLinks |-> IF ok THEN remoteLinksOf(jira.req[s].issue.remoteLinks) ELSE <<>>,
                        issueId |-> jira.lastIssueId, ep |-> 1 ]]
        /\ UNCHANGED <<analysis, impact, scored, regression, upload, resolution, extracted, reply, dashboard, inventory>>

\* a dev-status endpoint answers with detail: its pull requests are pushed and
\* the loop breaks; getLinkedPRs and getStoryDetails return (lines 226-278, 63-73)
DevAnswers(s) ==
    /\ jira.req[s].pc = "dev"
    /\ jira' = [jira EXCEPT !.req[s] =
                  storyResult(jira.req[s],
                      jira.req[s].prLinks \o devLinksOf(devAnswer(jira.req[s], jira.req[s].ep)))]
    /\ UNCHANGED <<analysis, impact, scored, regression, upload, resolution, extracted, reply, dashboard, inventory>>

\* a dev-status endpoint rejects or answers without detail: the next one is
\* asked, and after the third the links found so far are returned
DevFails(s) ==
    /\ jira.req[s].pc = "dev"
    /\ jira' = [jira EXCEPT !.req[s] =
                  IF jira.req[s].ep < 3
                  THEN [jira.req[s] EXCEPT !.ep = @ + 1]
                  ELSE storyResult(jira.req[s], jira.req[s].prLinks)]
    /\ UNCHANGED <<analysis, impact, scored, regression, upload, resolution, extracted, reply, dashboard, inventory>>

\* getMultipleStories maps getStoryDetails over the ids and awaits them all:
\* the requests of the slots run interleaved
NextJira ==
    \E s \in Slots :
        \/ StartStory(s) \/ IssueArrives(s) \/ IssueFails(s)
        \/ RemoteLinksSettle(s) \/ DevAnswers(s) \/ DevFails(s)
SpecJira == InitIdle /\ [][NextJira]_vars

-----------------------------------------------------------------------------
(* Shared service instances: claim C14                                     *)

\* the links a story's own records can give
OwnUrls(key) ==
    {storyByKey(key).remoteLinks[i].url : i \in 1..Len(storyByKey(key).remoteLinks)}
        \cup {storyByKey(key).pullRequests[i].url : i \in 1..Len(storyByKey(key).pullRequests)}

\* C14: a request looks up pull requests with the issue id of its own story,
\* and the links returned for a story are links of that story, whatever the
\* other request on the instance does.
C14_OwnIssueIdIsUsed ==
    \A s \in Slots :
        /\ jira.req[s].pc \in {"dev", "done"}
              => jira.req[s].issueId = storyByKey(jira.req[s].jiraId).id
        /\ jira.req[s].pc = "done"
              => \A i \in 1..Len(jira.req[s].result.linkedPRs) :
                    jira.req[s].result.linkedPRs[i].url \in OwnUrls(jira.req[s].jiraId)

-----------------------------------------------------------------------------
(* POST /api/upload-to-testrail: getOrCreateSection, checkForDuplicates,   *)
(* bulkAddTestCases. Each await is a step; requests run interleaved.       *)

RECURSIVE ToUpperCase(_)
UpperCh(c) ==
    IF c \in CharsOf(LowerChars)
    THEN Ch(UpperChars, CHOOSE i \in 1..26 : Ch(LowerChars, i) = c) ELSE c
ToUpperCase(s) ==
    IF Len(s) = 0 THEN ""
    ELSE IF Len(s) = 1 THEN UpperCh(s)
    ELSE ToUpperCase(SubSeq(s, 1, Len(s) \div 2))
             \o ToUpperCase(SubSeq(s, Len(s) \div 2 + 1, Len(s)))

\* sections.find(s => s.name.toLowerCase() === sectionName.toLowerCase()):
\* the indices of the sections of that name (lines 64-66)
sectionsNamed(sections, sectionName) ==
    {i \in 1..Len(sections) : ToLowerCase(sections[i].name) = ToLowerCase(sectionName)}

\* jiraIds.split(',').map(id => id.trim()) (part_001 line 207)
jiraIdArray(jiraIds) == TrimAll(SplitStr(jiraIds, ","))

\* the cases get_cases lists for a section
casesIn(cases, sectionId) ==
    PickIdx(cases, {i \in 1..Len(cases) : cases[i].section_id = sectionId})

\* existingCases.filter(tc => jiraRefs.some(id => refs.includes(id.toUpperCase())))
\* (lines 914-917)
duplicatesOf(existingCases, jiraRefs) ==
    PickIdx(existingCases,
            {i \in 1..Len(existingCases) :
                \E k \in 1..Len(jiraRefs) :
                    Includes(ToUpperCase(existingCases[i].refs), ToUpperCase(jiraRefs[k]))})

\* the request bodies
UploadCase(title, refs) == [title |-> title, refs |-> refs]
MaxUpload == 2
UploadLists ==
    { SubSeq(<<UploadCase("Submit enabled", "PROJ-2"), UploadCase("Submit disabled", "PROJ-2"),
               UploadCase("Submit hidden", "PROJ-2")>>, 1, n) : n \in 0..MaxUpload }
FolderNames == {"webform", "New"}
JiraIdLists == {"PROJ-2", "proj-1, PROJ-3"}

\* progressCallback({current: i + 1, total, status, testCase}) at the head of an
\* iteration, before add_case is sent (lines 961-968); the reports are kept
progressCallback(r, current) ==
    Append(r.progress, [ current |-> current, total |-> Len(r.testCases),
                         testCase |-> r.testCases[current].title ])

\* the request arrives: a body without folder or test cases is answered 400,
\* otherwise getOrCreateSection sends get_sections (part_001 lines 190-204)
StartUpload(s) ==
    \E folderName \in FolderNames, testCases \in UploadLists, jiraIds \in JiraIdLists :
        /\ upload.req[s].pc = "idle"
        /\ upload' = [upload EXCEPT !.req[s] =
                        [ IdleUpload EXCEPT
                            !.pc = IF folderName = "" \/ Len(testCases) = 0
                                   THEN "rejected" ELSE "sections",
                            !.folderName = folderName, !.testCases = testCases,
                            !.jiraIds = jiraIds ]]
        /\ UNCHANGED <<analysis, impact, scored, regression, jira, resolution, extracted, reply, dashboard, inventory>>

\* the sections arrive: an existing section of that name is taken and
\* checkForDuplicates sends get_cases; otherwise add_section is sent
\* (lines 61-76; part_001 lines 204-208)
SectionsArrive(s) ==
    /\ upload.req[s].pc = "sections"
    /\ upload' = [upload EXCEPT !.req[s] =
                    IF sectionsNamed(upload.sections, upload.req[s].folderName) # {}
                    THEN [ upload.req[s] EXCEPT
                             !.pc = "check",
                             !.sectionId = upload.sections[
                                 MinOf(sectionsNamed(upload.sections, upload.req[s].folderName))].id ]
                    ELSE [ upload.req[s] EXCEPT !.pc = "create" ]]
    /\ UNCHANGED <<analysis, impact, scored, regression, jira, resolution, extracted, reply, dashboard, inventory>>

\* the new section is there (lines 77-83)
SectionCreated(s) ==
    /\ upload.req[s].pc = "create"
    /\ upload' = [upload EXCEPT
                    !.sections = Append(@, Section(upload.nextId, upload.req[s].folderName, 0)),
                    !.nextId = @ + 1,
                    !.req[s] = [upload.req[s] EXCEPT !.pc = "check", !.sectionId = upload.nextId]]
    /\ UNCHANGED <<analysis, impact, scored, regression, jira, resolution, extracted, reply, dashboard, inventory>>

\* get_sections or add_section rejects: getOrCreateSection throws and the
\* route answers 500 (lines 84-87; part_001 lines 238-244)
SectionFails(s) ==
    /\ upload.req[s].pc \in {"sections", "create"}
    /\ upload' = [upload EXCEPT !.req[s] = [upload.req[s] EXCEPT !.pc = "error"]]
    /\ UNCHANGED <<analysis, impact, scored, regression, jira, resolution, extracted, reply, dashboard, inventory>>

\* the cases of the section arrive: with duplicates the route answers
\* duplicatesFound, without it starts bulkAddTestCases (lines 911-919;
\* part_001 lines 210-221)
DuplicatesChecked(s) ==
    /\ upload.req[s].pc = "check"
    /\ upload' = [upload EXCEPT !.req[s] =
                    [ upload.req[s] EXCEPT
                        !.check = "done",
                        !.pc = IF Len(duplicatesOf(casesIn(upload.cases, upload.req[s].sectionId),
                                                   jiraIdArray(upload.req[s].jiraIds))) > 0
                               THEN "duplicates" ELSE "adding",
                        !.progress =
                            IF Len(duplicatesOf(casesIn(upload.cases, upload.req[s].sectionId),
                                                jiraIdArray(upload.req[s].jiraIds))) > 0
                            THEN @ ELSE progressCallback(upload.req[s], 1) ]]
    /\ UNCHANGED <<analysis, impact, scored, regression, jira, resolution, extracted, reply, dashboard, inventory>>

\* get_cases rejects: the catch block returns [] and the route goes on to
\* bulkAddTestCases (lines 920-923)
DuplicateCheckFails(s) ==
    /\ upload.req[s].pc = "check"
    /\ upload' = [upload EXCEPT !.req[s] =
                    [ upload.req[s] EXCEPT !.check = "failed", !.pc = "adding",
                                           !.progress = progressCallback(upload.req[s], 1) ]]
    /\ UNCHANGED <<analysis, impact, scored, regression, jira, resolution, extracted, reply, dashboard, inventory>>

\* the position of the loop of bulkAddTestCases
loopIndex(r) == Len(r.success) + Len(r.failed) + 1

\* add_case answers: the case is in the section, results.success takes it,
\* and after the delay the loop goes on or returns (lines 958-976)
CaseCreated(s) ==
    /\ upload.req[s].pc = "adding"
    /\ upload' = [upload EXCEPT
                    !.cases = Append(@, Case(upload.nextId,
                                             upload.req[s].testCases[loopIndex(upload.req[s])].title,
                                             upload.req[s].testCases[loopIndex(upload.req[s])].refs,
                                             upload.req[s].sectionId)),
                    !.nextId = @ + 1,
                    !.req[s] = [ upload.req[s] EXCEPT
                        !.success = Append(@, [ title |-> upload.req[s].testCases[
                                                              loopIndex(upload.req[s])].title,
                                                id |-> upload.nextId ]),
                        !.pc = IF loopIndex(upload.req[s]) = Len(upload.req[s].testCases)
                               THEN "done" ELSE "adding",
                        !.progress = IF loopIndex(upload.req[s]) = Len(upload.req[s].testCases)
                                     THEN @
                                     ELSE progressCallback(upload.req[s],
                                                           loopIndex(upload.req[s]) + 1) ]]
    /\ UNCHANGED <<analysis, impact, scored, regression, jira, resolution, extracted, reply, dashboard, inventory>>

\* the loop without its break
CaseFails_goesOn(s) ==
    /\ upload.req[s].pc = "adding"
    /\ upload' = [upload EXCEPT !.req[s] =
                    [ upload.req[s] EXCEPT
                        !.failed = Append(@, [ title |-> upload.req[s].testCases[
                                                             loopIndex(upload.req[s])].title ]),
                        !.pc = IF loopIndex(upload.req[s]) = Len(upload.req[s].testCases)
                               THEN "done" ELSE "adding",
                        !.progress = IF loopIndex(upload.req[s]) = Len(upload.req[s].testCases)
                                     THEN @
                                     ELSE progressCallback(upload.req[s],
                                                           loopIndex(upload.req[s]) + 1) ]]
    /\ UNCHANGED <<analysis, impact, scored, regression, jira, resolution, extracted, reply, dashboard, inventory>>

\* add_case rejects: results.failed takes the case and the loop breaks
\* (lines 978-988)
CaseFails(s) ==
    /\ upload.req[s].pc = "adding"
    /\ upload' = [upload EXCEPT !.req[s] =
                    [ upload.req[s] EXCEPT
                        !.failed = Append(@, [ title |-> upload.req[s].testCases[
                                                             loopIndex(upload.req[s])].title ]),
                        !.pc = "done" ]]
    /\ UNCHANGED <<analysis, impact, scored, regression, jira, resolution, extracted, reply, dashboard, inventory>>

NextUpload ==
    \E s \in Slots :
        \/ StartUpload(s) \/ SectionsArrive(s) \/ SectionCreated(s) \/ SectionFails(s)
        \/ DuplicatesChecked(s) \/ DuplicateCheckFails(s) \/ CaseCreated(s) \/ CaseFails(s)
SpecUpload == InitIdle /\ [][NextUpload]_vars

-----------------------------------------------------------------------------
(* Upload: claims C15, C16                                                 *)

\* the two requests name a common JIRA id, case-insensitively
ShareJiraId(r, t) ==
    \E i \in 1..Len(jiraIdArray(r.jiraIds)), k \in 1..Len(jiraIdArray(t.jiraIds)) :
        ToUpperCase(jiraIdArray(r.jiraIds)[i]) = ToUpperCase(jiraIdArray(t.jiraIds)[k])

\* C15: an upload whose duplicate check failed creates no test case, and two
\* uploads for the same folder and the same JIRA id never both create test
\* cases.
C15_NoDuplicateUploads ==
    /\ \A s \in Slots :
          upload.req[s].check = "failed" => upload.req[s].success = <<>>
    /\ \A s \in Slots, t \in Slots :
          ( /\ s # t
            /\ ToLowerCase(upload.req[s].folderName) = ToLowerCase(upload.req[t].folderName)
            /\ ShareJiraId(upload.req[s], upload.req[t]) )
          => ~(upload.req[s].success # <<>> /\ upload.req[t].success # <<>>)

\* C16: when a creation of a bulk upload has failed, none of the cases the
\* upload created before is left in the test repository.
C16_FailedUploadLeavesNothing ==
    \A s \in Slots :
        (upload.req[s].pc = "done" /\ upload.req[s].failed # <<>>) =>
            \A i \in 1..Len(upload.req[s].success) :
                \A k \in 1..Len(upload.cases) :
                    upload.cases[k].id # upload.req[s].success[i].id

-----------------------------------------------------------------------------
(* Component resolution: the body of jiraComponents.forEach up to the tags *)

ResolveLabels ==
    { "Applicant-Webform", "Admin", "phsTemplates", "admin_reports",
      "Reviewer Forms", "Investigator-caseNotes", "Templates", "web" }

EntryPool ==
    { Entry("Webform", <<"webform", "form-submission">>), Entry("Templates", <<"template">>),
      Entry("Form", <<"form">>), Entry("Case Notes", <<"notes">>) }

\* the entries of a traceability table: an object holds a name once
MaxEntries == 2
ResolveTables ==
    UNION { {t \in [1..n -> EntryPool] : \A i \in 1..n, j \in 1..n : i # j => t[i] # t[j]} :
            n \in 0..MaxEntries }

\* one ticket component is resolved against the table (lines 1282-1327)
ResolveComponent ==
    \E jiraComp \in ResolveLabels, componentMapping \in ResolveTables :
        /\ resolution = None
        /\ resolution' = [ jiraComp |-> jiraComp, componentMapping |-> componentMapping,
                         compParts |-> componentParts(jiraComp),
                         hit |-> resolveTags(componentParts(jiraComp), componentMapping) ]
        /\ UNCHANGED <<analysis, impact, scored, regression, jira, upload, extracted, reply, dashboard, inventory>>

NextResolve == ResolveComponent
SpecResolve == InitIdle /\ [][NextResolve]_vars

-----------------------------------------------------------------------------
(* Component resolution: claims C17, C18, C19                              *)

\* the delimited words of a label as written, without the role words
WrittenParts(label) ==
    PickIdx(SplitOn(label, LabelSeps),
            {i \in 1..Len(SplitOn(label, LabelSeps)) :
                /\ SplitOn(label, LabelSeps)[i] # ""
                /\ ToLowerCase(SplitOn(label, LabelSeps)[i]) \notin USER_ROLES})

PartSet(parts) == {parts[i] : i \in 1..Len(parts)}

\* C17: the camel-case sub-words of every part of the label are in the part
\* set used for matching.
C17_CamelWordsAreParts ==
    Called(resolution) =>
        \A i \in 1..Len(WrittenParts(resolution.jiraComp)) :
            \A k \in 1..Len(SplitCamel(WrittenParts(resolution.jiraComp)[i])) :
                ToLowerCase(SplitCamel(WrittenParts(resolution.jiraComp)[i])[k])
                    \in PartSet(resolution.compParts)

\* some part of the label is inside a word of the entry's name, or a word
\* of the name is inside a part
Contained(parts, name) ==
    \E p \in 1..Len(parts), w \in 1..Len(SplitRuns(ToLowerCase(name), LabelSeps)) :
        \/ Includes(SplitRuns(ToLowerCase(name), LabelSeps)[w], parts[p])
        \/ Includes(parts[p], SplitRuns(ToLowerCase(name), LabelSeps)[w])

\* C18: the tags are those of the first entry of the table, in iteration
\* order, with a containment between a part and a word of its name; later
\* entries do not count, and without any containment no entry is selected.
C18_FirstEntryWins ==
    Called(resolution) =>
        /\ resolution.hit.matched =>
              \E i \in 1..Len(resolution.componentMapping) :
                  /\ Contained(resolution.compParts, resolution.componentMapping[i].name)
                  /\ \A j \in 1..(i - 1) :
                        ~Contained(resolution.compParts, resolution.componentMapping[j].name)
                  /\ resolution.hit.name = resolution.componentMapping[i].name
                  /\ resolution.hit.tags = resolution.componentMapping[i].tags
        /\ ~resolution.hit.matched =>
              /\ \A i \in 1..Len(resolution.componentMapping) :
                    ~Contained(resolution.compParts, resolution.componentMapping[i].name)
              /\ resolution.hit.tags = resolution.compParts

\* two entries of the table satisfy the condition and carry different tags
C18_Witness ==
    /\ Called(resolution)
    /\ resolution.hit.matched
    /\ Len(resolution.componentMapping) = 2
    /\ Contained(resolution.compParts, resolution.componentMapping[1].name)
    /\ Contained(resolution.compParts, resolution.componentMapping[2].name)
    /\ resolution.componentMapping[1].tags # resolution.componentMapping[2].tags
    /\ resolution.hit.tags = resolution.componentMapping[1].tags

\* the label with its role words removed before any splitting: the other
\* delimited words, as written, joined by hyphens
RolesRemoved(label) == Join(WrittenParts(label), "-")

\* C19: removing the role words from the label before it is split gives the
\* same parts and the same tags as removing them from the split parts, and
\* no role word is among the parts that are matched against the table.
C19_RoleStrippingCommutes ==
    Called(resolution) =>
        /\ componentParts(RolesRemoved(resolution.jiraComp)) = resolution.compParts
        /\ resolveTags(componentParts(RolesRemoved(resolution.jiraComp)),
                       resolution.componentMapping).tags = resolution.hit.tags
        /\ PartSet(resolution.compParts) \cap USER_ROLES = {}

\* a label with a role word and another word, resolved to an entry's tags
C19_Witness ==
    /\ Called(resolution)
    /\ RolesRemoved(resolution.jiraComp) # resolution.jiraComp
    /\ resolution.compParts # <<>>
    /\ resolution.hit.matched

-----------------------------------------------------------------------------
(* TestRailService.extractFileKeywords                                     *)

\* the stopWords of extractFileKeywords (line 1054)
fileStopWords ==
    { "src", "app", "common", "components", "services", "models", "views",
      "controllers", "utils", "lib", "core" }

\* cleanPart.replace(/([A-Z])/g, ' $1'): a space before every capital letter
RECURSIVE spaceCapitals(_)
spaceCapitals(s) ==
    IF Len(s) = 0 THEN ""
    ELSE (IF Ch(s, 1) \in UpperSet THEN " " \o Ch(s, 1) ELSE Ch(s, 1))
             \o spaceCapitals(SubSeq(s, 2, Len(s)))

\* .replace(/[._-]/g, ' ')
RECURSIVE punctuationToSpaces(_)
punctuationToSpaces(s) ==
    IF Len(s) = 0 THEN ""
    ELSE (IF Ch(s, 1) \in CharsOf("._-") THEN " " ELSE Ch(s, 1))
             \o punctuationToSpaces(SubSeq(s, 2, Len(s)))

\* the words of one path segment (lines 1061-1070)
wordsOfPart(part) ==
    SplitRuns(ToLowerCase(Trim(punctuationToSpaces(spaceCapitals(dropExtension(part))))),
              WhiteSet)

\* word.length >= 4 && !stopWords.has(word) && /^[a-z0-9]+$/.test(word)
keptFileWords(words) ==
    PickIdx(words, {i \in 1..Len(words) :
                       /\ Len(words[i]) >= 4
                       /\ words[i] \notin fileStopWords
                       /\ \A c \in 1..Len(words[i]) : Ch(words[i], c) \in LowerAlnumSet})

\* the kept words of every segment of one path, in order
keywordsOfPath(parts) ==
    Flatten([p \in 1..Len(parts) |-> keptFileWords(wordsOfPart(parts[p]))])

\* extractFileKeywords(files) (lines 1052-1081): the set keeps insertion order
extractFileKeywords(files) ==
    Unique(Flatten([f \in 1..Len(files) |-> keywordsOfPath(SplitOn(files[f].path, {"/"}))]))

\* texts and changed files handed to the extractors
KeywordTexts ==
    { "", "Submit button is disabled", "The common services test",
      "Fix dist build for tests", "Add Webform to app" }
KeywordPaths ==
    { "src/tests/LoginService.js", "dist/app/common/webform.component.ts",
      "lib/test/utils.spec.js", "src/components/UserProfile.tsx", "core/models/case_notes.py" }
MaxKeywordFiles == 2
KeywordFileLists ==
    UNION { [1..n -> {[path |-> p] : p \in KeywordPaths}] : n \in 0..MaxKeywordFiles }

\* both extractors are run, on a text and on a list of changed files
ExtractKeywords ==
    \E text \in KeywordTexts, files \in KeywordFileLists :
        /\ extracted = None
        /\ extracted' = [ text |-> text, files |-> files,
                          textKeywords |-> extractSignificantKeywords(text),
                          fileKeywords |-> extractFileKeywords(files) ]
        /\ UNCHANGED <<analysis, impact, scored, regression, jira, upload, resolution, reply, dashboard, inventory>>

NextKeywords == ExtractKeywords
SpecKeywords == InitIdle /\ [][NextKeywords]_vars

-----------------------------------------------------------------------------
(* Keyword extraction: claim C20                                           *)

\* the generic path segments
GenericSegments ==
    { "src", "app", "common", "components", "services", "models", "views",
      "controllers", "utils", "lib", "core", "test", "tests", "dist" }

\* C20: no keyword returned by either extractor is shorter than 4 characters,
\* a common English function word or a generic path segment.
C20_KeywordsAreSignificant ==
    Called(extracted) =>
        \A w \in PartSet(extracted.textKeywords) \cup PartSet(extracted.fileKeywords) :
            /\ Len(w) >= 4
            /\ w \notin stopWords
            /\ w \notin GenericSegments

-----------------------------------------------------------------------------
(* Test cases as the repository returns them: a field the repository left  *)
(* out is undefined, and both services read it through `|| ''`.            *)

\* the reading without the guard: an undefined field rendered as text
orEmpty_rendered(v) == IF IsStr(v) THEN v.v ELSE "undefined"

\* v || ''  for a field that is a string when present
orEmpty(v) == IF Truthy(v) THEN v.v ELSE ""

\* testCase.custom_fields || {}  as the entry list that is stringified
fieldsOrEmpty(v) == IF Truthy(v) THEN v.props ELSE <<>>

\* the scorer's reads of one test case
readTestCase(raw) ==
    Test(raw.id, orEmpty(raw.title), orEmpty(raw.refs), fieldsOrEmpty(raw.custom_fields),
         orEmpty(raw.sectionPath), raw.section_id, raw.priority_id)

readTestCases(raws) == [i \in 1..Len(raws) |-> readTestCase(raws[i])]

\* the impact scan's reads of one test case (its section path comes from enrichment)
readCase(raw) == Case(raw.id, orEmpty(raw.title), orEmpty(raw.refs), raw.section_id)

readCases(raws) == [i \in 1..Len(raws) |-> readCase(raws[i])]

RawTest(id, title, refs, fields, path, section, priority) ==
    [ id |-> id, title |-> title, refs |-> refs, custom_fields |-> fields,
      sectionPath |-> path, section_id |-> section, priority_id |-> priority ]

RawCase(id, title, refs, section) ==
    [id |-> id, title |-> title, refs |-> refs, section_id |-> section]

SparseTests ==
    { RawTest(301, Str("Verify Webform submit button disabled"), Str("PROJ-1"),
              Obj(<<[key |-> "custom_notes", value |-> "REST endpoint"]>>),
              Str("Forms > Applicant > Webform"), 3, 1),
      RawTest(302, Undef, Str("PROJ-1"), Obj(<<>>), Str("Forms > Applicant > Webform"), 3, 1),
      RawTest(303, Str("Webform export"), Undef, Obj(<<>>), Str("Regression"), 4, 3),
      RawTest(304, Str("Webform submit"), Str(""), Undef, Str("Regression > Webform"), 4, 0),
      RawTest(305, Str("Reports overview"), Str(""), Obj(<<>>), Undef, 4, 2),
      RawTest(306, Undef, Undef, Undef, Undef, 0, 0) }

SparseCases ==
    { RawCase(101, Str("Webform submit button disabled"), Undef, 3),
      RawCase(102, Undef, Str("proj-1, PROJ-22"), 4),
      RawCase(103, Str("Webform regression"), Str("PROJ-1"), 9),
      RawCase(104, Undef, Undef, 0) }

MaxSparse == 2
SparseTestLists == UNION { [1..n -> SparseTests] : n \in 0..MaxSparse }
SparseInventories == UNION { [1..n -> SparseCases] : n \in 0..MaxSparse }

SparseOptions ==
    [ jiraId : {"PROJ-1"}, changedFiles : ChangedFileLists,
      traceabilityMatrix : {<<>>}, jiraTitle : TicketTitles,
      prCategory : {"Relaxed PR"}, jiraComponents : {<<>>, <<"Applicant-Webform">>} ]

ScoreSparseTests ==
    \E raws \in SparseTestLists, files \in ScoreFiles, keywords \in ScoreKeywords :
        /\ scored = None /\ impact = None
        /\ scored' = [ rawTests |-> raws, changedFiles |-> files,
                       components |-> <<"Webform">>, keywords |-> keywords,
                       call |-> scoreRegressionTestsForRelevance(
                                    readTestCases(raws), files, <<"Webform">>, keywords,
                                    "fix: Webform submit button is disabled", "", <<>>) ]
        /\ UNCHANGED <<analysis, impact, regression, jira, upload, resolution, extracted, reply, dashboard, inventory>>

ImpactSparseCases ==
    \E raws \in SparseInventories, options \in SparseOptions :
        LET server == [up |-> TRUE, sections |-> SuiteSections, cases |-> readCases(raws)] IN
        /\ scored = None /\ impact = None
        /\ impact' = [ rawCases |-> raws, options |-> options,
                       call |-> getImpactedTestCases(server, options) ]
        /\ UNCHANGED <<analysis, scored, regression, jira, upload, resolution, extracted, reply, dashboard, inventory>>

NextSparse == ScoreSparseTests \/ ImpactSparseCases

SpecSparse == InitIdle /\ [][NextSparse]_vars

\* the same value with every absent field given as the empty value
blank(v) == IF v = Undef THEN Str("") ELSE v

BlankTest(raw) ==
    RawTest(raw.id, blank(raw.title), blank(raw.refs),
            IF raw.custom_fields = Undef THEN Obj(<<>>) ELSE raw.custom_fields,
            blank(raw.sectionPath), raw.section_id, raw.priority_id)

SparseContext ==
    scoringContext(scored.changedFiles, scored.components, scored.keywords,
                   "fix: Webform submit button is disabled", "", <<>>)

Lacking(raw) ==
    Undef \in {raw.title, raw.refs, raw.custom_fields, raw.sectionPath}

\* C21: a test case with an absent title, refs, custom fields or section path is
\* scored as if the field were the empty string (the empty object for the custom
\* fields), every test case of the run gets the score it would get on its own,
\* and the impact selection returns what it returns for the blanked inventory.
C21_AbsentFieldsReadAsEmpty ==
    /\ Called(scored) =>
          /\ Len(scored.call.rawScores) = Len(scored.rawTests)
          /\ \A i \in 1..Len(scored.rawTests) :
                scored.call.rawScores[i]
                  = rawScoreOf(readTestCase(BlankTest(scored.rawTests[i])), SparseContext)
    /\ Called(impact) =>
          /\ impact.call.outcome = "return"
          /\ impact.call
               = getImpactedTestCases(
                    [up |-> TRUE, sections |-> SuiteSections,
                     cases |-> [i \in 1..Len(impact.rawCases) |->
                                   Case(impact.rawCases[i].id,
                                        blank(impact.rawCases[i].title).v,
                                        blank(impact.rawCases[i].refs).v,
                                        impact.rawCases[i].section_id)]],
                    impact.options)

\* a run that scores a test case lacking fields next to a complete one that scores
C21_Witness ==
    /\ Called(scored)
    /\ Len(scored.rawTests) = 2
    /\ Lacking(scored.rawTests[1])
    /\ ~Lacking(scored.rawTests[2])
    /\ scored.call.rawScores[1] > 0
    /\ scored.call.rawScores[2] > 0

-----------------------------------------------------------------------------
(* Runs long enough for the size limit of the scorer to cut the list       *)

SizeLimits == {10, 15, 20, 40, 60}

\* how far past a size limit a regression list goes
MaxOver == 1
RunLengths == {0} \cup {limit + d : limit \in SizeLimits, d \in (0 - 1)..MaxOver}

\* the file counts on both sides of every tier boundary
TierCounts == {0, 2, 3, 5, 6, 10, 11, 20, 21}

RunPool ==
    << Test(0, "Verify Webform submit button disabled when required", "PROJ-1", <<>>,
            "Forms > Applicant > Webform", 3, 1),
       Test(0, "Webform submit", "", <<>>, "Forms > Applicant > Webform", 3, 3),
       Test(0, "Reports overview", "", <<>>, "Regression", 4, 3) >>

\* a regression list of the given length: the pool repeated from an offset, ids 1..n
RunOf(pool, n, offset) ==
    [i \in 1..n |-> [pool[((i + offset) % Len(pool)) + 1] EXCEPT !.id = i]]

RunFiles(n) == [i \in 1..n |-> [path |-> "src/forms/webform.component.ts"]]

ScoreRun(pool, lengths, counts, keywordLists) ==
    \E n \in lengths, offset \in 0..(Len(pool) - 1), files \in counts,
       keywords \in keywordLists :
        /\ scored = None
        /\ scored' = [ regressionTests |-> RunOf(pool, n, offset), changedFiles |-> RunFiles(files),
                       keywords |-> keywords,
                       call |-> scoreRegressionTestsForRelevance(
                                    RunOf(pool, n, offset), RunFiles(files), <<>>,
                                    keywords, "", "", <<>>) ]
        /\ UNCHANGED <<analysis, impact, regression, jira, upload, resolution, extracted, reply, dashboard, inventory>>

ScoreLongRun == ScoreRun(RunPool, RunLengths, TierCounts, {<<"webform", "endpoint">>})

NextLongRun == ScoreLongRun

SpecLongRun == InitIdle /\ [][NextLongRun]_vars

\* the size limit the claim states for a number of changed files
StatedLimit(n) ==
    IF n <= 2 THEN 10 ELSE IF n <= 5 THEN 15 ELSE IF n <= 10 THEN 20
    ELSE IF n <= 20 THEN 40 ELSE 60

ReturnedIds == {scored.call.topTests[k].id : k \in 1..Len(scored.call.topTests)}

-----------------------------------------------------------------------------
(* POST /api/analyze-pr: the route from the PR fetch to the response.  The  *)
(* request names a ticket, a PR url and a suite.  The legacy search and the *)
(* regression list take no part in the estimate and are not carried.        *)

\* getPRDetails.getPath(f); `others` holds the further own properties of an entry
detailsGetPath(f) ==
    LET p == f.path
        fullKeys == IF IsObj(p)
                    THEN {i \in 1..Len(p.props) :
                            /\ p.props[i].key \notin {"parent", "name", "extension", "components"}
                            /\ IsStr(p.props[i].val)}
                    ELSE {}
        dotted == IF "others" \in DOMAIN f
                  THEN {i \in 1..Len(f.others) :
                          IsStr(f.others[i].val) /\ Includes(f.others[i].val.v, ".")}
                  ELSE {}
    IN
    IF IsStr(p) THEN p.v
    ELSE IF IsObj(p) /\ IsStr(Get(p, "toString")) THEN Get(p, "toString").v
    ELSE IF IsObj(p) /\ IsStr(Get(p, "value")) THEN Get(p, "value").v
    ELSE IF IsObj(p) /\ IsStr(Get(p, "text")) THEN Get(p, "text").v
    ELSE IF fullKeys # {}
         THEN p.props[CHOOSE i \in fullKeys : \A j \in fullKeys : i <= j].val.v
    ELSE IF Truthy(f.new) /\ Truthy(Get(f.new, "path")) THEN Get(f.new, "path").v
    ELSE IF Truthy(f.old) /\ Truthy(Get(f.old, "path")) THEN Get(f.old, "path").v
    ELSE IF dotted # {}
         THEN f.others[CHOOSE i \in dotted : \A j \in dotted : i <= j].val.v
    ELSE UNKNOWN

\* the object getPRDetails returns for a fetched PR and its raw file entries
getPRDetails(pr, files) ==
    [ title |-> pr.title,
      filesChanged |-> Len(files),
      files |-> [i \in 1..Len(files) |-> [path |-> detailsGetPath(files[i])]],
      analysis |-> analyzePR(pr, files) ]

\* categoryTimeMultipliers[prCategory] || 1.0, as the minutes of one base hour
timeMultiplier(prCategory) ==
    CASE prCategory = "Relaxed PR" -> 30
      [] prCategory = "Sleepy PR" -> 45
      [] prCategory = "Sarcastic PR" -> 60
      [] prCategory = "Overloaded PR" -> 90
      [] prCategory = "Angry PR" -> 120
      [] OTHER -> 60

\* Math.round(estimatedTime * 10) / 10, from minutes to tenths of an hour
roundedHours(minutes) == (minutes + 3) \div 6

\* the estimate (lines 448-482): estimatedTime in minutes.  Reading
\* suggestedScenarios before its declaration throws when totalTests is 0, and the
\* inner catch leaves the estimate at 0.
estimateOf(impactedSections, totalTests, prCategory) ==
    IF totalTests = 0 THEN 0
    ELSE IF impactedSections > 0 THEN impactedSections * 1 * timeMultiplier(prCategory)
    ELSE totalTests * 10

successBody(prDetails, impacted, totalTests, estimatedTime) ==
    [ status |-> 200, success |-> TRUE,
      pr |-> [ title |-> prDetails.title, category |-> prDetails.analysis.category,
               filesChanged |-> prDetails.filesChanged, files |-> prDetails.files ],
      analysis |-> [ riskScore |-> prDetails.analysis.riskScore,
                     riskLevel |-> prDetails.analysis.riskLevel ],
      total |-> totalTests,
      estimatedTime |-> estimatedTime,
      estimatedHours |-> roundedHours(estimatedTime),
      impactedSections |-> IF impacted.outcome = "return"
                           THEN Cardinality(DOMAIN impacted.results.groupedByModule) ELSE 0 ]

errorBody == [status |-> 500, success |-> FALSE]

\* the inner try: the impact call, the totals and the estimate
afterImpact(prDetails, impacted) ==
    IF impacted.outcome # "return"
    THEN successBody(prDetails, impacted, 0, 0)
    ELSE successBody(prDetails, impacted, Len(impacted.results.allCases),
                     estimateOf(Cardinality(DOMAIN impacted.results.groupedByModule),
                                Len(impacted.results.allCases),
                                prDetails.analysis.category))

\* the catch block of the route: prDetails is declared by `let` inside the try
\* block, so the name the catch block tests is not that binding
inCatch(prDetailsInScope) ==
    IF prDetailsInScope # Undef THEN [status |-> 200, success |-> TRUE, total |-> 0]
    ELSE errorBody

\* the handler; fault names the call that rejects (none, the PR fetch, the impact
\* analysis of the AI service, the scenario generation of the AI service)
analyzePrRoute(pr, files, server, story, table, fault) ==
    IF fault \in {"getPRDetails", "generateImpactAnalysis", "generateSuggestedTestScenarios"}
    THEN inCatch(Undef)
    ELSE afterImpact(getPRDetails(pr, files),
                     getImpactedTestCases(server,
                         [ jiraId |-> "PROJ-1",
                           changedFiles |-> getPRDetails(pr, files).files,
                           traceabilityMatrix |-> table,
                           jiraTitle |-> story.summary,
                           prCategory |-> getPRDetails(pr, files).analysis.category,
                           jiraComponents |-> story.components ]))

RouteFaults == {"none", "getPRDetails", "generateImpactAnalysis", "generateSuggestedTestScenarios"}

RoutePaths == {"ui/main.css", "src/forms/webform.component.ts"}
RouteCounts == {1, 3, 6, 11, 21}
RouteLines == {10, 600}
RouteChanges ==
    { CarryLines(Rep(FlatFile(p), n), lines) :
        p \in RoutePaths, n \in RouteCounts, lines \in RouteLines }

RouteServers ==
    { [up |-> FALSE, sections |-> <<>>, cases |-> <<>>] }
    \cup { [up |-> TRUE, sections |-> SuiteSections, cases |-> cases] :
             cases \in { <<>>,
                         <<Case(101, "Webform submit button disabled", "", 3)>>,
                         <<Case(103, "Webform regression", "PROJ-1", 3),
                           Case(102, "Login works", "proj-1, PROJ-22", 4)>> } }

RouteStories ==
    { [summary |-> "", components |-> <<>>],
      [summary |-> "Submit button is disabled", components |-> <<"Applicant-Webform">>] }

RouteTable == << Entry("Webform", <<"webform", "form-submission">>) >>

AnalyzePrRequest ==
    \E files \in RouteChanges, server \in RouteServers, story \in RouteStories,
       fault \in RouteFaults :
        /\ reply = None
        /\ reply' = [ files |-> files, server |-> server, story |-> story, fault |-> fault,
                      prDetails |-> IF fault = "getPRDetails" THEN Undef
                                    ELSE getPRDetails([title |-> "Add new reporting widget"], files),
                      response |-> analyzePrRoute([title |-> "Add new reporting widget"], files,
                                                  server, story, RouteTable, fault) ]
        /\ UNCHANGED <<analysis, impact, scored, regression, jira, upload, resolution, extracted, dashboard, inventory>>

NextRoute == AnalyzePrRequest

SpecRoute == InitIdle /\ [][NextRoute]_vars

\* the multiplier the claim states for a number of changed files, in minutes
StatedMultiplier(n) ==
    IF n <= 2 THEN 30 ELSE IF n <= 5 THEN 45 ELSE IF n <= 10 THEN 60
    ELSE IF n <= 20 THEN 90 ELSE 120

\* C23: with at least one impacted section the estimated time is the number of
\* impacted section paths times one base hour times a multiplier fixed by the
\* size tier of the file count (0.5, 0.75, 1.0, 1.5, 2.0), whatever the category.
C23_EstimateFollowsFileCount ==
    (Called(reply) /\ reply.response.status = 200 /\ reply.response.impactedSections > 0)
        => reply.response.estimatedTime
             = reply.response.impactedSections * StatedMultiplier(Len(reply.files))

\* C24: once getPRDetails has succeeded, an error in a later step of the route is
\* answered with a success response that carries the PR details, not with HTTP 500.
C24_PRDetailsSurviveErrors ==
    (Called(reply) /\ reply.prDetails # Undef)
        => /\ reply.response.status = 200
           /\ reply.response.success

-----------------------------------------------------------------------------
(* The order of a bulk upload                                              *)

InLoop(r) == r.pc \in {"adding", "done"} /\ Len(r.progress) > 0

\* C25: bulkAddTestCases creates the cases in list order and stops at the first
\* failure: success holds the titles of a prefix of the list in order, failed
\* holds at most the case right after that prefix, nothing is attempted after a
\* failure, and the progress callback has run once per attempted case with
\* current counting 1, 2, 3, ...
C25_UploadInOrderUntilFailure ==
    \A s \in Slots :
        InLoop(upload.req[s]) =>
            LET r == upload.req[s] IN
            /\ \A k \in 1..Len(r.success) : r.success[k].title = r.testCases[k].title
            /\ \A k \in 1..(Len(r.success) - 1) : r.success[k].id < r.success[k + 1].id
            /\ Len(r.failed) <= 1
            /\ Len(r.failed) = 1 =>
                  /\ r.failed[1].title = r.testCases[Len(r.success) + 1].title
                  /\ r.pc = "done"
            /\ Len(r.success) + Len(r.failed) <= Len(r.testCases)
            /\ \A k \in 1..Len(r.progress) : r.progress[k].current = k
            /\ Len(r.progress)
                 = Len(r.success) + Len(r.failed) + (IF r.pc = "adding" THEN 1 ELSE 0)

\* an upload of two cases that ended at the failure of the first
C25_Witness ==
    \E s \in Slots :
        /\ upload.req[s].pc = "done"
        /\ Len(upload.req[s].testCases) = 2
        /\ Len(upload.req[s].success) = 0
        /\ Len(upload.req[s].failed) = 1
        /\ Len(upload.req[s].progress) = 1

-----------------------------------------------------------------------------
(* The inventory fetch of getImpactedTestCases, one request at a time: the  *)
(* sections page by page, the paths of the sections, the cases page by page. *)
(* The repository serves a fixed list, limit items from the offset.          *)

\* the answer to get_sections / get_cases with &limit=250&offset=offset
pageAt(items, offset) ==
    SubSeq(items, offset + 1,
           IF offset + PageLimit < Len(items) THEN offset + PageLimit ELSE Len(items))

\* a loop that gives up after its first page
hasMore_firstPageOnly(page) == FALSE

\* hasMore after a page: false on an empty page and on a page shorter than the limit
hasMore(page) == Len(page) # 0 /\ ~(Len(page) < PageLimit)

StartFetch(sectionLists, caseLists) ==
    \E sections \in sectionLists, cases \in caseLists :
        /\ inventory = None
        /\ inventory' = [ server |-> [sections |-> sections, cases |-> cases],
                          pc |-> "sections", sectionOffset |-> 0, offset |-> 0,
                          allSections |-> <<>>, allCases |-> <<>>, requests |-> <<>> ]
        /\ UNCHANGED <<analysis, impact, scored, regression, jira, upload, resolution, extracted, reply, dashboard>>

\* one turn of the sections loop (lines 1178-1191)
SectionPage ==
    /\ Called(inventory)
    /\ inventory.pc = "sections"
    /\ LET page == pageAt(inventory.server.sections, inventory.sectionOffset) IN
       inventory' = [ inventory EXCEPT
                        !.requests = Append(@, [ call |-> "get_sections",
                                                 offset |-> inventory.sectionOffset ]),
                        !.allSections = @ \o page,
                        !.sectionOffset = IF Len(page) = 0 THEN @ ELSE @ + PageLimit,
                        !.pc = IF hasMore(page) THEN "sections" ELSE "paths" ]
    /\ UNCHANGED <<analysis, impact, scored, regression, jira, upload, resolution, extracted, reply, dashboard>>

\* the paths of all sections (lines 1194-1203); with a parent chain that comes
\* back to a section walked before, while (current) never ends and no step follows
BuildPaths ==
    /\ Called(inventory)
    /\ inventory.pc = "paths"
    /\ ~pathsLoop(inventory.allSections)
    /\ inventory' = [ inventory EXCEPT !.allSections = withPaths(@), !.pc = "cases" ]
    /\ UNCHANGED <<analysis, impact, scored, regression, jira, upload, resolution, extracted, reply, dashboard>>

\* one turn of the cases loop (lines 1215-1228)
CasePage ==
    /\ Called(inventory)
    /\ inventory.pc = "cases"
    /\ LET page == pageAt(inventory.server.cases, inventory.offset) IN
       inventory' = [ inventory EXCEPT
                        !.requests = Append(@, [ call |-> "get_cases",
                                                 offset |-> inventory.offset ]),
                        !.allCases = @ \o page,
                        !.offset = IF Len(page) = 0 THEN @ ELSE @ + PageLimit,
                        !.pc = IF hasMore(page) THEN "cases" ELSE "done" ]
    /\ UNCHANGED <<analysis, impact, scored, regression, jira, upload, resolution, extracted, reply, dashboard>>

\* the most full pages a list holds
MaxPages == 2
FetchSizes == {n \in {k * PageLimit + d : k \in 0..MaxPages, d \in {0 - 1, 0, 1}} : n >= 0}

RootSections(n) == [i \in 1..n |-> Section(i, "S", 0)]
PlainCases(n) == [i \in 1..n |-> Case(i, "T", "", 1)]

StartLongFetch ==
    StartFetch({RootSections(n) : n \in FetchSizes}, {PlainCases(n) : n \in FetchSizes})

NextFetch == StartLongFetch \/ SectionPage \/ BuildPaths \/ CasePage

\* every request is answered and the loop goes on after its await
SpecFetch == InitIdle /\ [][NextFetch]_vars
SpecFetchLive == SpecFetch /\ WF_vars(NextFetch)

IdSeq(items) == [i \in 1..Len(items) |-> items[i].id]

RequestsOf(call) ==
    PickIdx(inventory.requests,
            {i \in 1..Len(inventory.requests) : inventory.requests[i].call = call})

\* the offsets 0, 250, 500, ... up to the first page that is empty or short
StatedOffsets(call, items) ==
    [k \in 1..(Len(items) \div 250 + 1) |-> [call |-> call, offset |-> (k - 1) * 250]]

FetchDone == Called(inventory) /\ inventory.pc = "done"

FetchComplete ==
    FetchDone =>
        /\ IdSeq(inventory.allSections) = IdSeq(inventory.server.sections)
        /\ inventory.allCases = inventory.server.cases
        /\ RequestsOf("get_sections") = StatedOffsets("get_sections", inventory.server.sections)
        /\ RequestsOf("get_cases") = StatedOffsets("get_cases", inventory.server.cases)

\* C26: the paginated fetch ends and concatenates all pages: it requests the
\* offsets 0, 250, 500, ..., stops after the first page that is empty or shorter
\* than 250, and the lists it has then hold every section and every case of the
\* repository exactly once, in the order served.
C26_FetchEndsWithEveryPage ==
    /\ []FetchComplete
    /\ Called(inventory) ~> FetchDone

\* a fetch that took two full pages of cases and a short third one
C26_Witness ==
    /\ FetchDone
    /\ Len(RequestsOf("get_cases")) = 3
    /\ Len(inventory.allCases) > 2 * PageLimit
    /\ Len(RequestsOf("get_sections")) = 2

-----------------------------------------------------------------------------
(* Runs around the thresholds of the scorer                                 *)

\* the longest run
MaxRun == 17

ShortPool ==
    << Test(0, "Verify Webform submit button disabled when required", "PROJ-1", <<>>,
            "Forms > Applicant > Webform", 3, 1),
       Test(0, "Webform export", "", <<>>, "Regression > Webform", 4, 2),
       Test(0, "Reports overview", "", <<>>, "Regression", 4, 3) >>

ScoreShortRun == ScoreRun(ShortPool, 0..MaxRun, {0, 2, 3}, ScoreKeywords)

NextShortRun == ScoreShortRun

SpecShortRun == InitIdle /\ [][NextShortRun]_vars

\* the tests of the run whose final score reaches t
Meeting(t) == {i \in 1..Len(scored.call.scores) : scored.call.scores[i] >= t}

\* the highest of 60, 40, 25 that some test of the run meets, 0 when none does
HighestMet ==
    IF Meeting(60) # {} THEN 60 ELSE IF Meeting(40) # {} THEN 40
    ELSE IF Meeting(25) # {} THEN 25 ELSE 0

TopIds == {scored.call.topTests[k].id : k \in 1..Len(scored.call.topTests)}

C27_WitnessHeldBack ==
    /\ Called(scored)
    /\ HighestMet = 25
    /\ Meeting(1) # Meeting(25)
    /\ Len(scored.call.topTests) = Cardinality(Meeting(25))

-----------------------------------------------------------------------------
(* getPRDetails on raw change entries: the paths it reports and the paths   *)
(* the analyzePR call inside it reads from the same entries                 *)

\* an entry given by its path, new and old values and its further properties
RawEntry(path, new, old, others) ==
    [ path |-> path, new |-> new, old |-> old, others |-> others,
      linesAdded |-> 0, linesRemoved |-> 0, lines_added |-> 0, lines_removed |-> 0 ]

EntryShapes ==
    { FlatFile("src/app/login.js"),
      CloudFile("src/shared/api.js"),
      ServerFile("src/styles", "theme.js"),
      NoPathFile,
      \* a deleted file of a Cloud diffstat
      RawEntry(Undef, Undef, Obj(<<Prop("path", Str("src/old/gone.js"))>>), <<>>),
      RawEntry(Obj(<<Prop("value", Str("src/a/value.js"))>>), Undef, Undef, <<>>),
      RawEntry(Obj(<<Prop("name", Str("text.js")), Prop("text", Str("src/a/text.js"))>>),
               Undef, Undef, <<>>),
      \* a path object of fragments only, next to a Cloud pair
      RawEntry(Obj(<<Prop("parent", Str("src/b")), Prop("name", Str("frag.js"))>>),
               Obj(<<Prop("path", Str("src/b/frag.js"))>>), Undef, <<>>),
      \* no path, new or old, but a further property that looks like a file name
      RawEntry(Undef, Undef, Undef,
               <<Prop("type", Str("MODIFY")), Prop("file", Str("src/c/other.js"))>>) }

\* the most entries of one PR
MaxEntriesOfPR == 2
EntryLists == UNION { [1..n -> EntryShapes] : n \in 0..MaxEntriesOfPR }

\* a call getPRDetails(prUrl) whose requests are answered with the PR and the entries
GetPRDetails ==
    \E title \in PairTitles, files \in EntryLists :
        /\ reply = None
        /\ reply' = [ raw |-> files,
                      prDetails |-> getPRDetails([title |-> title], files),
                      analyzedPaths |-> [i \in 1..Len(files) |-> analyzeGetPath(files[i])] ]
        /\ UNCHANGED <<analysis, impact, scored, regression, jira, upload, resolution, extracted, dashboard, inventory>>

NextDetails == GetPRDetails

SpecDetails == InitIdle /\ [][NextDetails]_vars

\* C28: for every raw entry the path analyzePR classifies is the path getPRDetails
\* reports for it, and the two resolve to "[unknown]" for the same entries.
C28_OnePathPerEntry ==
    Called(reply) =>
        \A i \in 1..Len(reply.raw) :
            reply.analyzedPaths[i] = reply.prDetails.files[i].path

-----------------------------------------------------------------------------
(* The same fetch over sections with parent links of every kind             *)

\* the most sections of a linked list
MaxLinked == 3
SectionNames == <<"A", "B", "C", "D", "E", "F">>

\* parent links: none (0), any section of the list, or a section that is not served
LinkedSections(n) ==
    { [i \in 1..n |-> Section(i, SectionNames[i], parents[i])] :
        parents \in [1..n -> (0..n) \cup {99}] }

LinkedSectionLists == UNION { LinkedSections(n) : n \in 0..MaxLinked }

StartLinkedFetch ==
    StartFetch(LinkedSectionLists, {<<>>, <<Case(101, "Webform submit button disabled", "", 1)>>})

NextPaths == StartLinkedFetch \/ SectionPage \/ BuildPaths \/ CasePage

SpecPaths == InitIdle /\ [][NextPaths]_vars
\* every request is answered and every loop turn that can be taken is taken
SpecPathsLive == SpecPaths /\ WF_vars(NextPaths)

IndexOfId(sections, id) == CHOOSE i \in 1..Len(sections) : sections[i].id = id

\* the names from the root down to section i, following at most fuel links
RECURSIVE ChainNames(_, _, _)
ChainNames(sections, i, fuel) ==
    IF fuel = 0 \/ sections[i].parent_id = 0
       \/ ~(\E j \in 1..Len(sections) : sections[j].id = sections[i].parent_id)
    THEN <<sections[i].name>>
    ELSE Append(ChainNames(sections, IndexOfId(sections, sections[i].parent_id), fuel - 1),
                sections[i].name)

\* the chain of section i ends at a root or at a missing parent
RECURSIVE EndsAtRoot(_, _, _)
EndsAtRoot(sections, i, fuel) ==
    IF sections[i].parent_id = 0
       \/ ~(\E j \in 1..Len(sections) : sections[j].id = sections[i].parent_id)
    THEN TRUE
    ELSE IF fuel = 0 THEN FALSE
    ELSE EndsAtRoot(sections, IndexOfId(sections, sections[i].parent_id), fuel - 1)

PathsBuilt == Called(inventory) /\ inventory.pc \in {"cases", "done"}

PathsFollowChains ==
    PathsBuilt =>
        \A i \in 1..Len(inventory.allSections) :
            EndsAtRoot(inventory.server.sections, i, Len(inventory.server.sections))
                => inventory.allSections[i].path
                     = Join(ChainNames(inventory.server.sections, i,
                                       Len(inventory.server.sections)), sectionPathSep)

\* C29: the construction of the section paths ends for every finite list of
\* sections, also with a missing parent, a section that is its own parent, or a
\* cycle of parents; for a chain without a cycle the path is the names of the
\* ancestors from the root down to the section.
C29_PathsAlwaysBuilt ==
    /\ []PathsFollowChains
    /\ Called(inventory) ~> PathsBuilt

-----------------------------------------------------------------------------
(* The Generate Tests section of the dashboard.  items is the list of the   *)
(* displayed .test-case-item elements in document order, each with its      *)
(* data-index and the checked state of its checkbox.  The loading overlay    *)
(* covers the page while a request is out, so a handler runs to its end.     *)

\* createTestCaseElement(testCase, index): the element, its checkbox checked
createTestCaseElement(index) == [index |-> index, checked |-> TRUE]

\* displayTestCases(testCases): the container is emptied and refilled, and every
\* createTestCaseElement adds its index to state.selectedTestCases
displayTestCases(d, testCases) ==
    [ generatedTestCases |-> testCases,
      items |-> [k \in 1..Len(testCases) |-> createTestCaseElement(k - 1)],
      selectedTestCases |-> d.selectedTestCases \cup {k - 1 : k \in 1..Len(testCases)} ]

\* the change listener of the checkbox of the k-th displayed item
checkboxChanged(d, k) ==
    [ d EXCEPT !.items[k].checked = ~@,
               !.selectedTestCases = IF d.items[k].checked
                                     THEN @ \ {d.items[k].index}
                                     ELSE @ \cup {d.items[k].index} ]

\* selectAllTestCases(select): forEach((cb, index) => ...) adds or deletes the
\* position of the checkbox in the list of checkboxes
selectAllTestCases(d, select) ==
    [ d EXCEPT !.items = [k \in 1..Len(d.items) |-> [d.items[k] EXCEPT !.checked = select]],
               !.selectedTestCases = IF select
                                     THEN @ \cup {k - 1 : k \in 1..Len(d.items)}
                                     ELSE @ \ {k - 1 : k \in 1..Len(d.items)} ]

\* the success branch of handleUploadToTestRail: the items of the selected
\* indices are removed and the selection is cleared
clearUploaded(d) ==
    [ d EXCEPT !.items = PickIdx(d.items, {k \in 1..Len(d.items) :
                                              d.items[k].index \notin d.selectedTestCases}),
               !.selectedTestCases = {} ]

\* the most test cases of one generation
MaxGenerated == 4

\* handleGenerateTests with all fields filled in: the service answers with n test
\* cases, or with an error that leaves the page as it is
GenerateTests ==
    \E n \in 0..MaxGenerated, success \in BOOLEAN :
        /\ dashboard' = IF success THEN displayTestCases(dashboard, [k \in 1..n |-> k])
                        ELSE dashboard
        /\ UNCHANGED <<analysis, impact, scored, regression, jira, upload, resolution, extracted, reply, inventory>>

ToggleCheckbox ==
    \E k \in 1..Len(dashboard.items) :
        /\ dashboard' = checkboxChanged(dashboard, k)
        /\ UNCHANGED <<analysis, impact, scored, regression, jira, upload, resolution, extracted, reply, inventory>>

SelectAll ==
    /\ dashboard' = selectAllTestCases(dashboard, TRUE)
    /\ UNCHANGED <<analysis, impact, scored, regression, jira, upload, resolution, extracted, reply, inventory>>

DeselectAll ==
    /\ dashboard' = selectAllTestCases(dashboard, FALSE)
    /\ UNCHANGED <<analysis, impact, scored, regression, jira, upload, resolution, extracted, reply, inventory>>

\* handleUploadToTestRail: nothing is sent with an empty selection; duplicates, a
\* failed upload and a failed request leave the page as it is
UploadToTestRail ==
    \E answer \in {"success", "duplicatesFound", "failed", "error"} :
        /\ dashboard' = IF dashboard.selectedTestCases # {} /\ answer = "success"
                        THEN clearUploaded(dashboard)
                        ELSE dashboard
        /\ UNCHANGED <<analysis, impact, scored, regression, jira, upload, resolution, extracted, reply, inventory>>

NextDashboard == GenerateTests \/ ToggleCheckbox \/ SelectAll \/ DeselectAll \/ UploadToTestRail

SpecDashboard == InitIdle /\ [][NextDashboard]_vars

CheckedIndices ==
    {dashboard.items[k].index : k \in {j \in 1..Len(dashboard.items) : dashboard.items[j].checked}}

\* C30: after any sequence of generate, checkbox toggle, select-all, deselect-all
\* and upload, state.selectedTestCases is the set of the data-index values of the
\* displayed items whose checkbox is checked.
C30_SelectionIsTheCheckedItems == dashboard.selectedTestCases = CheckedIndices

====
